---- MODULE Spec2Model ----
(***************************************************************************)
(* Shot-zone classifier and lineup archetype resolver of                   *)
(* src/src/data/build_archetype_lineups.py.                                *)
(*                                                                         *)
(* Coordinates.  The zone catalog uses the half-unit values -47.5, 92.5,   *)
(* 142.5 and 237.5, so every coordinate, radius and tolerance of the model *)
(* is held in HALF UNITS (court value times two): U(40) is the radius 40,  *)
(* -95 is the baseline -47.5, 475 the three-point radius 237.5.  With all  *)
(* values integers, the comparisons the code makes on floats (squared      *)
(* distances, the x-intersection of an edge, atan2 angles) are decided     *)
(* exactly by integer arithmetic on cross products and squares.            *)
(***************************************************************************)
EXTENDS Integers, Sequences, FiniteSets, TLC

VARIABLES
    pc,             \* the function of the module that is called in this run
    loc_x, loc_y,   \* the point given to get_shot_zone / point_in_polygon /
                    \* point_in_arc_zone
    calls,          \* how many calls of that function have returned
    zone,           \* get_shot_zone: its return value, Pending before it returns
    df,             \* assign_zones_to_shots: the input shots table
    df_zoned,       \* assign_zones_to_shots: the outcome, [raised, rows]
    corners,        \* point_in_polygon: the ordered corner list
    scan,           \* point_in_polygon: the state the edge loop ended in
    arc,            \* point_in_arc_zone: the catalog entry under test
    in_arc,         \* point_in_arc_zone: its return value
    archetype_map,  \* process_lineup_row: (PLAYER_ID, SEASON) -> FINAL_ARCHETYPE
    player_name_map,\* process_lineup_row: PLAYER_ID -> PLAYER
    row,            \* process_lineup_row: the raw lineup row
    output_rows,    \* process_lineup_row: the rows it returns
    df_advanced,    \* load_lineups_data: the raw advanced table (MIN, ratings)
    df_scoring,     \* load_lineups_data: the raw scoring table
    df_base,        \* load_lineups_data: the raw base table (MIN, box score)
    df_opponent,    \* load_lineups_data: the raw opponent table
    df_archetype_lineups,   \* the outcome of build_archetype_lineups
    df_efficiency,          \* the outcome of build_efficiency_df
    df_tendencies,          \* the outcome of build_tendencies_df
    df_team_vs_opponent,    \* the outcome of build_team_vs_opponent_df
    df_scores,              \* the outcome of lineups_scores
    top15,                  \* load_lineups_data: the keys its head(15) keeps
    columns,                \* the columns of the tables given to a function
    outcome                 \* how the call on those tables ended

geometry_vars == <<loc_x, loc_y, zone, df, df_zoned, corners, scan, arc, in_arc>>
lineup_vars == <<archetype_map, player_name_map, row, output_rows>>
raw_vars == <<df_advanced, df_scoring, df_base, df_opponent>>
built_vars == <<df_archetype_lineups, df_efficiency, df_tendencies,
                df_team_vs_opponent, df_scores>>
loader_vars == <<top15, columns, outcome>>
pipeline_vars == <<raw_vars, built_vars, loader_vars>>
vars == <<pc, calls, geometry_vars, lineup_vars, pipeline_vars>>

\* Court units to half units.
U(n) == 2 * n

\* Python's None, as a zone value.
None == "None"
\* A result that has not been produced yet.
Pending == "Pending"
\* A call that ended in an exception.
Raised == "Raised"

Min(a, b) == IF a <= b THEN a ELSE b
Max(a, b) == IF a >= b THEN a ELSE b
Sq(a) == a * a

(***************************************************************************)
(* GEOMETRY PRIMITIVES                                                     *)
(***************************************************************************)

point_in_circle(x, y, cx, cy, r) == Sq(x - cx) + Sq(y - cy) <= Sq(r)

\* Lines 31-32: the edge p1-p2 spans the point's y (half-open: above the lower
\* end, up to and including the upper end).  EdgeSpansY_Closed is the variant
\* with `py >= min(p1y, p2y)`, which lets a horizontal edge through, and
\* EdgeSpansY_Open the one with `py < max(p1y, p2y)`.
EdgeSpansY_Closed(y, p1y, p2y) == y >= Min(p1y, p2y) /\ y <= Max(p1y, p2y)
EdgeSpansY_Open(y, p1y, p2y) == y > Min(p1y, p2y) /\ y < Max(p1y, p2y)
EdgeSpansY(y, p1y, p2y) == y > Min(p1y, p2y) /\ y <= Max(p1y, p2y)

\* Line 35: xinters = (py - p1y) * (p2x - p1x) / (p2y - p1y) + p1x, kept as the
\* exact fraction <<numerator, denominator>> with a positive denominator.
\* Defined only for p1y # p2y; a zero denominator is the division by zero.
XIntersect(y, p1, p2) ==
    LET d == p2[2] - p1[2]
        n == (y - p1[2]) * (p2[1] - p1[1]) + p1[1] * d
    IN  IF d > 0 THEN <<n, d>> ELSE IF d < 0 THEN <<-n, -d>> ELSE <<n, 0>>

\* px <= xinters for a computed xinters.
LeXinters(x, xi) == x * xi[2] <= xi[1]

\* The state of the edge loop before its first iteration (lines 27-28): xinters
\* is unbound (the empty tuple).
ScanStart ==
    [inside |-> FALSE, xinters |-> <<>>, stale |-> FALSE, raised |-> FALSE,
     divzero |-> FALSE, horiz |-> FALSE]

\* One iteration of the loop of lines 29-38 on the edge p1-p2.
\*   stale   : line 36 read xinters although line 35 did not run for this edge
\*   raised  : that read found xinters unbound (UnboundLocalError)
\*   divzero : line 35 ran with p2y = p1y
\*   horiz   : a horizontal edge toggled `inside`
EdgeStep(x, y, p1, p2, st) ==
    IF st.raised \/ st.divzero THEN st
    ELSE
    LET reach    == EdgeSpansY(y, p1[2], p2[2]) /\ x <= Max(p1[1], p2[1])
        computes == reach /\ p1[2] # p2[2]
        xi       == IF computes THEN XIntersect(y, p1, p2) ELSE st.xinters
        reads    == reach /\ p1[1] # p2[1]
        unbound  == reads /\ xi = <<>>
        dz       == computes /\ xi[2] = 0
        crossing == reach /\ ~unbound /\ ~dz
                    /\ (p1[1] = p2[1] \/ LeXinters(x, xi))
    IN  [inside  |-> IF crossing THEN ~st.inside ELSE st.inside,
         xinters |-> xi,
         stale   |-> st.stale \/ (reads /\ ~computes),
         raised  |-> unbound,
         divzero |-> dz,
         horiz   |-> st.horiz \/ (crossing /\ p1[2] = p2[2])]

\* Iterations i..n of the loop: in iteration i, p1 is corner i and p2 is
\* corner (i % n) + 1 (1-based).
RECURSIVE polygon_scan(_, _, _, _, _)
polygon_scan(x, y, cs, i, st) ==
    IF i > Len(cs) THEN st
    ELSE polygon_scan(x, y, cs, i + 1,
                      EdgeStep(x, y, cs[i], cs[(i % Len(cs)) + 1], st))

point_in_polygon(x, y, cs) == polygon_scan(x, y, cs, 1, ScanStart).inside

(***************************************************************************)
(* Angles.  angle_to_point is atan2(ay - cy, ax - cx), normalised by        *)
(* % (2 * pi) to [0, 2 pi).  Two such angles are compared exactly through    *)
(* the half plane of each direction and the sign of their cross product.    *)
(***************************************************************************)

\* atan2(0, 0) is 0: the null direction has the angle of the positive x axis.
Dir(v) == IF v = <<0, 0>> THEN <<1, 0>> ELSE v
\* 0 for a normalised angle in [0, pi), 1 for one in [pi, 2 pi).
HalfPlane(v) == IF v[2] > 0 \/ (v[2] = 0 /\ v[1] > 0) THEN 0 ELSE 1
Cross(a, b) == a[1] * b[2] - a[2] * b[1]
AngleLt(a, b) ==
    LET da == Dir(a)
        db == Dir(b)
    IN  \/ HalfPlane(da) < HalfPlane(db)
        \/ HalfPlane(da) = HalfPlane(db) /\ Cross(da, db) > 0
AngleLe(a, b) == ~AngleLt(b, a)

\* Lines 89-93, on the directions from arc_center of the point p and of the
\* two arc corners ci, cj.  angle_in_range_Sector is the variant that accepts
\* the directions between those of the two corners, where they are less than
\* 180 degrees apart.
angle_in_range_Sector(p, ci, cj) ==
    LET lo == IF Cross(ci, cj) > 0 THEN ci ELSE cj
        hi == IF Cross(ci, cj) > 0 THEN cj ELSE ci
    IN  Cross(lo, Dir(p)) >= 0 /\ Cross(Dir(p), hi) >= 0 /\ HalfPlane(Dir(p)) = 0
angle_in_range(p, ci, cj) ==
    IF AngleLt(ci, cj)
    THEN AngleLe(ci, p) /\ AngleLe(p, cj)
    ELSE AngleLe(ci, p) \/ AngleLe(p, cj)

\* Line 106: abs(dist_to_center - arc_radius) < 30, on the squared distance d2.
NearArc(d2, r) == (r - U(30) < 0 \/ d2 > Sq(r - U(30))) /\ d2 < Sq(r + U(30))

\* Line 130: dist_to_center >= arc_radius - 5.
BeyondArc(d2, r) == r - U(5) <= 0 \/ d2 >= Sq(r - U(5))

\* Line 95: the regime of an arc zone.
IsThreePointArc(r) == r > U(150)

\* Lines 42-134.  arc_between holds 0-based corner indices, as in the source.
point_in_arc_zone(x, y, cs, arc_between, arc_center, arc_radius) ==
    LET ci   == cs[arc_between[1] + 1]
        cj   == cs[arc_between[2] + 1]
        rel(v) == <<v[1] - arc_center[1], v[2] - arc_center[2]>>
        d2   == Sq(x - arc_center[1]) + Sq(y - arc_center[2])
        air  == angle_in_range(rel(<<x, y>>), rel(ci), rel(cj))
        in_poly == point_in_polygon(x, y, cs)
    IN  IF IsThreePointArc(arc_radius)
        THEN \* lines 101-109
             IF in_poly THEN TRUE
             ELSE IF air /\ NearArc(d2, arc_radius) THEN TRUE
             ELSE FALSE
        ELSE \* lines 116-134
             IF ~in_poly THEN FALSE
             ELSE IF air /\ BeyondArc(d2, arc_radius) THEN TRUE
             ELSE in_poly

(***************************************************************************)
(* ZONE CATALOG (lines 155-271), in half units                             *)
(***************************************************************************)

Circle(n, c, r) == [name |-> n, type |-> "circle", center |-> c, radius |-> r]
Polygon(n, cs) == [name |-> n, type |-> "polygon", corners |-> cs]
ArcZone(n, cs, ab, r) ==
    [name |-> n, type |-> "arc_zone", corners |-> cs, arc_between |-> ab,
     arc_center |-> <<0, 0>>, arc_radius |-> r]

zones == <<
    Circle("Restricted Area", <<0, 0>>, U(40)),
    ArcZone("Close Paint",
            <<<<-160, -95>>, <<160, -95>>, <<160, 40>>, <<-160, 40>>>>,
            <<3, 2>>, U(80)),
    ArcZone("Far Paint",
            <<<<-160, 40>>, <<160, 40>>, <<160, 285>>, <<-160, 285>>>>,
            <<0, 1>>, U(80)),
    Polygon("Left Corner 3",
            <<<<-500, -95>>, <<-440, -95>>, <<-440, 185>>, <<-500, 185>>>>),
    Polygon("Right Corner 3",
            <<<<440, -95>>, <<500, -95>>, <<500, 185>>, <<440, 185>>>>),
    Polygon("Left Midrange Close",
            <<<<-320, -95>>, <<-160, -95>>, <<-160, 185>>, <<-320, 185>>>>),
    Polygon("Left Midrange Far",
            <<<<-440, -95>>, <<-320, -95>>, <<-320, 185>>, <<-440, 185>>>>),
    Polygon("Right Midrange Close",
            <<<<160, -95>>, <<320, -95>>, <<320, 185>>, <<160, 185>>>>),
    Polygon("Right Midrange Far",
            <<<<320, -95>>, <<440, -95>>, <<440, 185>>, <<320, 185>>>>),
    ArcZone("Center Midrange",
            <<<<-160, 285>>, <<160, 285>>, <<192, 432>>, <<-192, 432>>>>,
            <<3, 2>>, 475),
    ArcZone("Above the Break Center 3",
            <<<<-192, 432>>, <<192, 432>>, <<300, 680>>, <<-300, 680>>>>,
            <<0, 1>>, 475),
    ArcZone("Above the Break Left 3",
            <<<<-500, 185>>, <<-440, 185>>, <<-192, 432>>, <<-300, 680>>,
              <<-500, 680>>>>,
            <<1, 2>>, 475),
    ArcZone("Above the Break Right 3",
            <<<<500, 185>>, <<500, 680>>, <<300, 680>>, <<192, 432>>,
              <<440, 185>>>>,
            <<3, 4>>, 475),
    ArcZone("Left Center Midrange",
            <<<<-160, 185>>, <<-160, 285>>, <<-192, 432>>, <<-440, 185>>>>,
            <<3, 2>>, 475),
    ArcZone("Right Center Midrange",
            <<<<160, 185>>, <<160, 285>>, <<192, 432>>, <<440, 185>>>>,
            <<2, 3>>, 475)
>>

ZoneNames == {zones[k].name : k \in 1..Len(zones)}

(***************************************************************************)
(* SHOT ZONE CLASSIFIER                                                    *)
(***************************************************************************)

\* The edge loop of a catalog entry's polygon ends in an exception.
zone_raises(z, x, y) ==
    /\ z.type # "circle"
    /\ LET s == polygon_scan(x, y, z.corners, 1, ScanStart)
       IN  s.raised \/ s.divzero

\* Lines 282-293: the containment test of one catalog entry.
zone_contains(z, x, y) ==
    CASE z.type = "circle" ->
            point_in_circle(x, y, z.center[1], z.center[2], z.radius)
      [] z.type = "polygon" ->
            point_in_polygon(x, y, z.corners)
      [] z.type = "arc_zone" ->
            point_in_arc_zone(x, y, z.corners, z.arc_between, z.arc_center,
                              z.arc_radius)

\* Lines 278-295: the walk over the catalog from entry k on.  walk_zones_Last
\* is the variant without the early return: the last accepting entry wins.
RECURSIVE walk_zones_Last(_, _, _)
walk_zones_Last(x, y, k) ==
    IF k > Len(zones) THEN None
    ELSE LET later == walk_zones_Last(x, y, k + 1)
         IN  IF later # None THEN later
             ELSE IF zones[k].name # "Restricted Area"
                     /\ zone_contains(zones[k], x, y)
                  THEN zones[k].name
                  ELSE None
RECURSIVE walk_zones(_, _, _)
walk_zones(x, y, k) ==
    IF k > Len(zones) THEN None
    ELSE IF zones[k].name = "Restricted Area" THEN walk_zones(x, y, k + 1)
    ELSE IF zone_raises(zones[k], x, y) THEN Raised
    ELSE IF zone_contains(zones[k], x, y) THEN zones[k].name
    ELSE walk_zones(x, y, k + 1)

\* Lines 273-295.  get_shot_zone_NoPriority is the variant without the test
\* of lines 273-275.
get_shot_zone_NoPriority(x, y) == walk_zones(x, y, 1)
get_shot_zone(x, y) ==
    IF point_in_circle(x, y, 0, 0, U(40)) THEN "Restricted Area"
    ELSE walk_zones(x, y, 1)

\* Line 315: the rows assign_zones_to_shots keeps,
\* (LOC_Y > -47.5) & (LOC_Y <= 340).  InCourtBounds_Inclusive is the variant
\* with LOC_Y >= -47.5.
InCourtBounds_Inclusive(y) == y >= -95 /\ y <= U(340)
InCourtBounds(y) == y > -95 /\ y <= U(340)

\* Lines 298-323.  A table is a sequence of rows; `index` is the row's
\* dataframe index, which the boolean-mask filter keeps.
\* assign_zones_to_shots_DropUnzoned is the variant that also drops the rows
\* whose ZONE is None.
assign_zones_to_shots_DropUnzoned(t) ==
    LET kept == SelectSeq(t, LAMBDA r : InCourtBounds(r.LOC_Y)
                                        /\ get_shot_zone(r.LOC_X, r.LOC_Y) # None)
        out  == [i \in 1..Len(kept) |->
                    [index |-> kept[i].index,
                     LOC_X |-> kept[i].LOC_X,
                     LOC_Y |-> kept[i].LOC_Y,
                     ZONE  |-> get_shot_zone(kept[i].LOC_X, kept[i].LOC_Y)]]
    IN  [raised |-> FALSE, rows |-> out]
assign_zones_to_shots(t) ==
    LET kept == SelectSeq(t, LAMBDA r : InCourtBounds(r.LOC_Y))
        out  == [i \in 1..Len(kept) |->
                    [index |-> kept[i].index,
                     LOC_X |-> kept[i].LOC_X,
                     LOC_Y |-> kept[i].LOC_Y,
                     ZONE  |-> get_shot_zone(kept[i].LOC_X, kept[i].LOC_Y)]]
    IN  IF \E i \in 1..Len(out) : out[i].ZONE = Raised
        THEN [raised |-> TRUE, rows |-> <<>>]
        ELSE [raised |-> FALSE, rows |-> out]

(***************************************************************************)
(* LINEUP ARCHETYPE RESOLVER (lines 330-371)                               *)
(*                                                                         *)
(* A Python str is the sequence of its characters' code points, so that    *)
(* split, join and the lexicographic order of sorted() are computed on the *)
(* characters: '-' is 45, '0'..'9' are 48..57.                             *)
(***************************************************************************)

Hyphen == 45
Digit0 == 48

\* Line 10.
ALL_STAR_IDS ==
    {203999, 201939, 201935, 202695, 2544, 1629029, 203507, 1630162, 1626164,
     201142, 1628983}

\* The archetype labels: the keys of ARCHETYPE_SPECS.
\* "Movement Shooter"
L_Movement_Shooter ==
    <<77, 111, 118, 101, 109, 101, 110, 116, 32, 83, 104, 111, 111, 116,
      101, 114>>
\* "3&D"
L_3andD ==
    <<51, 38, 68>>
\* "Wing Shot Creator"
L_Wing_Shot_Creator ==
    <<87, 105, 110, 103, 32, 83, 104, 111, 116, 32, 67, 114, 101, 97, 116,
      111, 114>>
\* "All-Around Guard"
L_All_Around_Guard ==
    <<65, 108, 108, 45, 65, 114, 111, 117, 110, 100, 32, 71, 117, 97, 114,
      100>>
\* "Rim Runner / Protector"
L_Rim_Runner_Protector ==
    <<82, 105, 109, 32, 82, 117, 110, 110, 101, 114, 32, 47, 32, 80, 114,
      111, 116, 101, 99, 116, 111, 114>>
\* "Shot Creator Guard"
L_Shot_Creator_Guard ==
    <<83, 104, 111, 116, 32, 67, 114, 101, 97, 116, 111, 114, 32, 71, 117,
      97, 114, 100>>
\* "Glue Guy"
L_Glue_Guy ==
    <<71, 108, 117, 101, 32, 71, 117, 121>>
\* "Stretch Big"
L_Stretch_Big ==
    <<83, 116, 114, 101, 116, 99, 104, 32, 66, 105, 103>>
\* "All-Around Big"
L_All_Around_Big ==
    <<65, 108, 108, 45, 65, 114, 111, 117, 110, 100, 32, 66, 105, 103>>
\* "Pure Point Guard"
L_Pure_Point_Guard ==
    <<80, 117, 114, 101, 32, 80, 111, 105, 110, 116, 32, 71, 117, 97, 114,
      100>>
\* "Post Scorer"
L_Post_Scorer ==
    <<80, 111, 115, 116, 32, 83, 99, 111, 114, 101, 114>>
ArchetypeLabels ==
    { L_Movement_Shooter, L_3andD, L_Wing_Shot_Creator,
      L_All_Around_Guard, L_Rim_Runner_Protector,
      L_Shot_Creator_Guard, L_Glue_Guy, L_Stretch_Big,
      L_All_Around_Big, L_Pure_Point_Guard, L_Post_Scorer }

\* str.split(sep): the pieces of s between the occurrences of sep.
RECURSIVE SplitFrom(_, _, _, _)
SplitFrom(s, sep, i, piece) ==
    IF i > Len(s) THEN <<piece>>
    ELSE IF s[i] = sep THEN <<piece>> \o SplitFrom(s, sep, i + 1, <<>>)
    ELSE SplitFrom(s, sep, i + 1, Append(piece, s[i]))
Split(s, sep) == SplitFrom(s, sep, 1, <<>>)

\* sep.join(parts).
RECURSIVE Join(_, _)
Join(parts, sep) ==
    IF Len(parts) = 0 THEN <<>>
    ELSE IF Len(parts) = 1 THEN parts[1]
    ELSE parts[1] \o <<sep>> \o Join(Tail(parts), sep)

\* int(s) for a string of decimal digits.
RECURSIVE ParseInt(_, _)
ParseInt(s, acc) ==
    IF Len(s) = 0 THEN acc
    ELSE ParseInt(Tail(s), 10 * acc + (Head(s) - Digit0))

\* str(n) for n >= 0.
RECURSIVE Str(_)
Str(n) == IF n < 10 THEN <<Digit0 + n>> ELSE Append(Str(n \div 10), Digit0 + (n % 10))

\* a < b for two str: the order sorted() uses.
RECURSIVE StrLt(_, _)
StrLt(a, b) ==
    IF Len(b) = 0 THEN FALSE
    ELSE IF Len(a) = 0 THEN TRUE
    ELSE IF Head(a) # Head(b) THEN Head(a) < Head(b)
    ELSE StrLt(Tail(a), Tail(b))

\* sorted(list of str): a stable insertion sort.
RECURSIVE InsertSorted(_, _)
InsertSorted(x, l) ==
    IF Len(l) = 0 THEN <<x>>
    ELSE IF StrLt(x, Head(l)) THEN <<x>> \o l
    ELSE <<Head(l)>> \o InsertSorted(x, Tail(l))
RECURSIVE sorted(_)
sorted(l) ==
    IF Len(l) = 0 THEN <<>>
    ELSE InsertSorted(l[Len(l)], sorted(SubSeq(l, 1, Len(l) - 1)))

\* Lines 330-331.
parse_group_ids(group_id) ==
    LET parts == Split(group_id, Hyphen)
    IN  [i \in 1..Len(parts) |-> ParseInt(parts[i], 0)]

\* dict.get(key): the value, or None.
DictGet(d, k) == IF k \in DOMAIN d THEN d[k] ELSE None

\* Line 360: the signature of a complete list of archetypes.
\* lineup_signature_Unsorted is the variant that joins without sorting.
lineup_signature_Unsorted(archetypes) == Join(archetypes, Hyphen)
\* lineup_signature_Distinct is the variant that joins each label once,
\* "-".join(sorted(set(archetypes))).
lineup_signature_Distinct(archetypes) ==
    LET s    == sorted(archetypes)
        keep == SelectSeq([k \in 1..Len(s) |-> k],
                          LAMBDA k : k = 1 \/ s[k] # s[k - 1])
    IN  Join([j \in 1..Len(keep) |-> s[keep[j]]], Hyphen)
lineup_signature(archetypes) == Join(sorted(archetypes), Hyphen)

\* Lines 349-358: the archetypes of the other players, or None (ok = FALSE)
\* as soon as one of them has no entry for the season.  map_archetypes_Partial
\* is the variant whose `break` keeps the archetypes found so far.
RECURSIVE mapped_prefix(_, _, _)
mapped_prefix(others, season, amap) ==
    IF Len(others) = 0 \/ <<Head(others), season>> \notin DOMAIN amap THEN <<>>
    ELSE <<amap[<<Head(others), season>>]>>
         \o mapped_prefix(Tail(others), season, amap)
map_archetypes_Partial(others, season, amap) ==
    [ok |-> TRUE, list |-> mapped_prefix(others, season, amap)]
map_archetypes(others, season, amap) ==
    IF \E i \in 1..Len(others) : <<others[i], season>> \notin DOMAIN amap
    THEN [ok |-> FALSE, list |-> <<>>]
    ELSE [ok |-> TRUE,
          list |-> [i \in 1..Len(others) |-> amap[<<others[i], season>>]]]

\* Line 346: the players of the lineup other than the star of the pair.
\* other_players_NoStars is the variant that leaves out every all-star.
other_players_NoStars(players, star_id) ==
    SelectSeq(players, LAMBDA pid : pid \notin ALL_STAR_IDS)
other_players(players, star_id) ==
    SelectSeq(players, LAMBDA pid : pid # star_id)

\* Lines 345-369: the rows for the stars of `stars` (in order), appended to acc.
RECURSIVE star_rows(_, _, _, _, _, _)
star_rows(stars, players, r, amap, names, acc) ==
    IF Len(stars) = 0 THEN acc
    ELSE
    LET star_id == Head(stars)
        archetypes == map_archetypes(other_players(players, star_id),
                                     r.SEASON, amap)
        out == [ALL_STAR_ID      |-> star_id,
                ALL_STAR_NAME    |-> DictGet(names, star_id),
                GROUP_ID         |-> r.GROUP_ID,
                GROUP_NAME       |-> r.GROUP_NAME,
                LINEUP_ARCHETYPE |-> lineup_signature(archetypes.list),
                SEASON           |-> r.SEASON]
    IN  star_rows(Tail(stars), players, r, amap, names,
                  IF ~archetypes.ok THEN acc ELSE Append(acc, out))

\* Lines 333-371.
process_lineup_row(r, all_star_ids, amap, names) ==
    LET players == parse_group_ids(r.GROUP_ID)
        stars_in_lineup == SelectSeq(players, LAMBDA pid : pid \in all_star_ids)
    IN  star_rows(stars_in_lineup, players, r, amap, names, <<>>)

(***************************************************************************)
(* INPUTS                                                                  *)
(***************************************************************************)

\* The sampling grid has 2 * GridCells + 1 columns and GridCells + 1 rows.
GridCells == 15
\* get_shot_zone is called up to MaxCalls times on one point.
MaxCalls == 2
\* A shots table has up to MaxShots rows.
MaxShots == 2

\* Coordinates (half units) where the catalog's edges, corners and circles lie;
\* each is sampled together with its two half-unit neighbours.
EdgeXs == {0, 80, 150, 160, 192, 300, 320, 440, 474, 500}
EdgeYs == {-100, -95, 0, 40, 80, 185, 285, 432, 680}
Near(S) == {e + d : e \in S, d \in {-1, 0, 1}}

\* The wing points (-230, 100) and (200, 130), with their mirror images.
WingXs == {U(-230), U(230), U(-200), U(200)}
WingYs == {U(100), U(130)}

\* x from -300 to 300 court units, y from -60 to 360: the court of interest
\* (x in [-250, 250], y in (-47.5, 340]) with a margin on every side.
GridXs ==
    {(k * U(300)) \div GridCells : k \in -GridCells..GridCells}
    \cup Near(EdgeXs) \cup {-e : e \in Near(EdgeXs)} \cup WingXs
GridYs ==
    {U(-60) + (k * U(420)) \div GridCells : k \in 0..GridCells} \cup Near(EdgeYs)
    \cup WingYs

\* The shots a table's rows are drawn from: one or more in every zone, on the
\* two bounds of LOC_Y and beyond them, and in bounds outside every zone.
ShotSamples ==
    { <<0, 0>>, <<0, -90>>, <<0, -95>>, <<0, -100>>, <<474, -100>>, <<0, 100>>,
      <<-460, 0>>, <<460, 0>>, <<-200, 0>>, <<-400, 0>>, <<200, 0>>, <<400, 0>>,
      <<0, 300>>, <<0, 500>>, <<-400, 400>>, <<400, 400>>, <<-250, 250>>,
      <<250, 250>>, <<0, 680>>, <<0, 681>>, <<0, 700>>, <<600, 200>>,
      <<-600, 600>>, <<-500, 0>> }

ShotTables ==
    { [i \in DOMAIN f |-> [index |-> i, LOC_X |-> f[i][1], LOC_Y |-> f[i][2]]] :
        f \in UNION {[1..m -> ShotSamples] : m \in 0..MaxShots} }

\* point_in_polygon is called on every corner list of 3 or 4 vertices with
\* coordinates in 0..PolyGridMax (horizontal, vertical, repeated and crossing
\* edges included) and on every point of that square and of its border.
PolyGridMax == 1
PolySizes == {3, 4}
PolyVertices == (0..PolyGridMax) \X (0..PolyGridMax)
PolyCorners == UNION {[1..n -> PolyVertices] : n \in PolySizes}
PolyCoords == -1..(PolyGridMax + 1)

\* The catalog entries point_in_arc_zone is called on.
ArcZones == {k \in 1..Len(zones) : zones[k].type = "arc_zone"}

\* The archetype table lacks up to MaxMissing of its (player, season) entries.
MaxMissing == 1

Seasons == {"2023-24", "2024-25"}

\* The raw lineups: one all-star with four teammates, two all-stars with
\* three, and a lineup without an all-star.
Lineups ==
    { {2544, 101, 102, 103, 104},
      {2544, 201939, 101, 102, 103},
      {101, 102, 103, 104, 105} }
Players == UNION Lineups

\* A complete archetype table over the eleven labels: two teammates share a
\* label, and every player changes label between the seasons.
FullArchetypes ==
    [k \in Players \X Seasons |->
        CASE k = <<2544, "2023-24">>   -> L_Wing_Shot_Creator
          [] k = <<201939, "2023-24">> -> L_Shot_Creator_Guard
          [] k = <<101, "2023-24">>    -> L_3andD
          [] k = <<102, "2023-24">>    -> L_Glue_Guy
          [] k = <<103, "2023-24">>    -> L_3andD
          [] k = <<104, "2023-24">>    -> L_All_Around_Guard
          [] k = <<105, "2023-24">>    -> L_Stretch_Big
          [] k = <<2544, "2024-25">>   -> L_Post_Scorer
          [] k = <<201939, "2024-25">> -> L_Movement_Shooter
          [] k = <<101, "2024-25">>    -> L_Stretch_Big
          [] k = <<102, "2024-25">>    -> L_All_Around_Big
          [] k = <<103, "2024-25">>    -> L_Rim_Runner_Protector
          [] k = <<104, "2024-25">>    -> L_Pure_Point_Guard
          [] k = <<105, "2024-25">>    -> L_Glue_Guy]

\* Lines 376-380: archetype_map of a table from which the entries of `gone`
\* are absent: up to MaxMissing entries, or every entry of one player.
ArchetypeMaps ==
    { [k \in (Players \X Seasons) \ gone |-> FullArchetypes[k]] :
        gone \in {g \in SUBSET (Players \X Seasons) : Cardinality(g) <= MaxMissing}
                 \cup {{p} \X Seasons : p \in Players} }

\* The PLAYER column of the archetype table.
PlayerName(pid) ==
    CASE pid = 2544 -> "Star A" [] pid = 201939 -> "Star B" [] pid = 101 -> "Mate 1"
      [] pid = 102 -> "Mate 2" [] pid = 103 -> "Mate 3" [] pid = 104 -> "Mate 4"
      [] pid = 105 -> "Mate 5"

\* Lines 381-386: player_name_map of the table archetype_map was built from.
NameMapOf(amap) ==
    [pid \in {k[1] : k \in DOMAIN amap} |-> PlayerName(pid)]

\* GROUP_ID of five players in the order f.
GroupId(f) == Join([i \in DOMAIN f |-> Str(f[i])], Hyphen)

\* Every order of the elements of L, as a sequence.
RECURSIVE Orders(_)
Orders(L) ==
    IF L = {} THEN {<<>>}
    ELSE UNION {{<<x>> \o f : f \in Orders(L \ {x})} : x \in L}

\* The elements of a set of numbers in ascending order.
RECURSIVE Ascending(_)
Ascending(L) ==
    IF L = {} THEN <<>>
    ELSE LET m == CHOOSE x \in L : \A y \in L : x <= y
         IN  <<m>> \o Ascending(L \ {m})

\* The raw lineup rows: every lineup in every order of its player IDs.
LineupRows ==
    { [SEASON |-> se, GROUP_ID |-> GroupId(f), GROUP_NAME |-> "lineup"] :
        se \in Seasons, f \in UNION {Orders(L) : L \in Lineups} }

(***************************************************************************)
(* SPECIFICATION Spec: the shot zone classifier.  A run is either calls of *)
(* get_shot_zone on one point of the grid, or one call of                  *)
(* assign_zones_to_shots on a shots table.                                 *)
(***************************************************************************)

\* The variables of the functions a run does not call keep these values.
NoTable == [raised |-> FALSE, rows |-> <<>>]
IdlePoint == loc_x = 0 /\ loc_y = 0
IdleZone == zone = Pending
IdleShots == df = <<>> /\ df_zoned = NoTable
IdlePolygon == corners = <<>> /\ scan = ScanStart
IdleArc == arc = 0 /\ in_arc = FALSE
IdleLineup ==
    /\ archetype_map = <<>> /\ player_name_map = <<>>
    /\ row = <<>> /\ output_rows = <<>>
IdleRaw ==
    /\ df_advanced = <<>> /\ df_scoring = <<>>
    /\ df_base = <<>> /\ df_opponent = <<>>
IdleBuilt ==
    /\ df_archetype_lineups = <<>>
    /\ df_efficiency = NoTable /\ df_tendencies = NoTable
    /\ df_team_vs_opponent = NoTable /\ df_scores = NoTable
IdleLoader == top15 = <<>> /\ columns = <<>> /\ outcome = <<>>
IdlePipeline == IdleRaw /\ IdleBuilt /\ IdleLoader

Init ==
    /\ calls = 0
    /\ \/ /\ pc = "get_shot_zone"
          /\ loc_x \in GridXs
          /\ loc_y \in GridYs
          /\ zone = Pending
          /\ IdleShots /\ IdlePolygon /\ IdleArc /\ IdleLineup /\ IdlePipeline
       \/ /\ pc = "assign_zones_to_shots"
          /\ df \in ShotTables
          /\ df_zoned = NoTable
          /\ IdlePoint /\ IdleZone /\ IdlePolygon /\ IdleArc /\ IdleLineup /\ IdlePipeline

GetShotZone ==
    /\ pc = "get_shot_zone"
    /\ calls < MaxCalls
    /\ zone' = get_shot_zone(loc_x, loc_y)
    /\ calls' = calls + 1
    /\ UNCHANGED <<pc, loc_x, loc_y, df, df_zoned, corners, scan, arc, in_arc, lineup_vars, pipeline_vars>>

AssignZonesToShots ==
    /\ pc = "assign_zones_to_shots"
    /\ calls = 0
    /\ df_zoned' = assign_zones_to_shots(df)
    /\ calls' = 1
    /\ UNCHANGED <<pc, loc_x, loc_y, zone, df, corners, scan, arc, in_arc, lineup_vars, pipeline_vars>>

Next == GetShotZone \/ AssignZonesToShots

Spec == Init /\ [][Next]_vars

(***************************************************************************)
(* PROPERTIES OF THE SHOT ZONE CLASSIFIER (Spec)                           *)
(***************************************************************************)

Classified == pc = "get_shot_zone" /\ calls > 0
Assigned == pc = "assign_zones_to_shots" /\ calls = 1
InRestrictedCircle == loc_x * loc_x + loc_y * loc_y <= 80 * 80

\* C1: every point with loc_x^2 + loc_y^2 <= 40^2 is classified
\* "Restricted Area", whichever other containment tests succeed for it.
C1_RestrictedAreaPriority ==
    (Classified /\ InRestrictedCircle) => zone = "Restricted Area"

\* A point of the circle that Close Paint's test accepts as well.
C1_Witness ==
    /\ Classified /\ InRestrictedCircle
    /\ zone = "Restricted Area"
    /\ zone_contains(zones[2], loc_x, loc_y)

\* The catalog order the classifier walks after the Restricted Area.
CatalogOrder ==
    << "Close Paint", "Far Paint", "Left Corner 3", "Right Corner 3",
       "Left Midrange Close", "Left Midrange Far", "Right Midrange Close",
       "Right Midrange Far", "Center Midrange", "Above the Break Center 3",
       "Above the Break Left 3", "Above the Break Right 3",
       "Left Center Midrange", "Right Center Midrange" >>

\* The positions in CatalogOrder of the zones whose test accepts the point.
Matching ==
    {k \in 1..Len(CatalogOrder) :
        \E j \in 1..Len(zones) :
            zones[j].name = CatalogOrder[k] /\ zone_contains(zones[j], loc_x, loc_y)}

\* C2: outside the Restricted Area circle the result is the first zone of the
\* declared order whose containment test succeeds (None when none does), so no
\* earlier zone contains a point given to a later one; and a second
\* classification of the same point returns what the first returned.
C2_FirstMatchDeterministic ==
    /\ [](Classified /\ ~InRestrictedCircle =>
            /\ \A k \in 1..Len(CatalogOrder) : zones[k + 1].name = CatalogOrder[k]
            /\ IF Matching = {} THEN zone = None
               ELSE \E k \in Matching :
                       /\ zone = CatalogOrder[k]
                       /\ \A j \in Matching : k <= j)
    /\ [][zone # Pending => zone' = zone]_vars

\* A point classified twice for which the order decided: a later zone of the
\* catalog accepts it too.
C2_Witness ==
    /\ Classified /\ ~InRestrictedCircle /\ calls = 2
    /\ Cardinality(Matching) >= 2
    /\ zone # None

\* C3: get_shot_zone itself returns None for every point with
\* loc_y <= -47.5 or loc_y > 340.
C3_OutOfBoundsIsNone ==
    (Classified /\ (loc_y <= -95 \/ loc_y > 680)) => zone = None

\* C4: the returned table holds exactly the input rows with
\* -47.5 < LOC_Y <= 340, each once and each with a ZONE value; every other
\* row is absent.
C4_BoundsFilter ==
    Assigned =>
        LET out  == df_zoned.rows
            keep == {i \in 1..Len(df) : df[i].LOC_Y > -95 /\ df[i].LOC_Y <= 680}
        IN  /\ ~df_zoned.raised
            /\ Len(out) = Cardinality(keep)
            /\ {out[j].index : j \in 1..Len(out)} = keep
            /\ \A j \in 1..Len(out) :
                  /\ out[j].LOC_X = df[out[j].index].LOC_X
                  /\ out[j].LOC_Y = df[out[j].index].LOC_Y
                  /\ "ZONE" \in DOMAIN out[j]

\* A table with the shot at LOC_Y = -50 and a shot in bounds: one row is left.
C4_Witness ==
    /\ Assigned
    /\ \E i \in 1..Len(df) : df[i].LOC_Y = -100
    /\ \E i \in 1..Len(df) : df[i].LOC_Y > -95 /\ df[i].LOC_Y <= 680
    /\ Len(df_zoned.rows) = 1

\* No catalog entry accepts the shot.
Unmatched(x, y) == \A k \in 1..Len(zones) : ~zone_contains(zones[k], x, y)

\* C7: get_shot_zone returns, without raising, one of the 15 zone names or
\* None; assign_zones_to_shots keeps an in-bounds shot that no zone accepts,
\* with ZONE = None.
C7_NoneIsNotAnError ==
    /\ Cardinality(ZoneNames) = 15
    /\ Classified => zone \in ZoneNames \cup {None}
    /\ Assigned =>
          /\ ~df_zoned.raised
          /\ \A i \in 1..Len(df) :
                (df[i].LOC_Y > -95 /\ df[i].LOC_Y <= 680
                 /\ Unmatched(df[i].LOC_X, df[i].LOC_Y))
                => \E j \in 1..Len(df_zoned.rows) :
                      /\ df_zoned.rows[j].index = i
                      /\ df_zoned.rows[j].ZONE = None

\* A table with an in-bounds shot outside every zone, kept with ZONE = None.
C7_Witness ==
    /\ Assigned
    /\ \E j \in 1..Len(df_zoned.rows) :
          /\ df_zoned.rows[j].ZONE = None
          /\ df_zoned.rows[j].LOC_Y > -95 /\ df_zoned.rows[j].LOC_Y <= 680
          /\ Unmatched(df_zoned.rows[j].LOC_X, df_zoned.rows[j].LOC_Y)

(***************************************************************************)
(* SPECIFICATION SpecArc: one call of point_in_arc_zone on a point of the  *)
(* grid and an arc zone of the catalog.                                    *)
(***************************************************************************)

InitArc ==
    /\ pc = "point_in_arc_zone"
    /\ loc_x \in GridXs
    /\ loc_y \in GridYs
    /\ arc \in ArcZones
    /\ in_arc = FALSE
    /\ calls = 0
    /\ IdleZone /\ IdleShots /\ IdlePolygon /\ IdleLineup /\ IdlePipeline

PointInArcZone ==
    /\ pc = "point_in_arc_zone"
    /\ calls = 0
    /\ calls' = 1
    /\ in_arc' = point_in_arc_zone(loc_x, loc_y, zones[arc].corners,
                                   zones[arc].arc_between, zones[arc].arc_center,
                                   zones[arc].arc_radius)
    /\ UNCHANGED <<pc, loc_x, loc_y, zone, df, df_zoned, corners, scan, arc, lineup_vars, pipeline_vars>>

NextArc == PointInArcZone

SpecArc == InitArc /\ [][NextArc]_vars

(***************************************************************************)
(* PROPERTIES OF point_in_arc_zone (SpecArc)                               *)
(***************************************************************************)

ArcTested == pc = "point_in_arc_zone" /\ calls = 1

\* The point lies in the angular sector, seen from the arc's centre, that the
\* arc between the two arc_between corners subtends: between the directions
\* of the two corners, on the side where they are less than 180 degrees apart.
InArcSector ==
    LET z  == zones[arc]
        c  == z.arc_center
        a  == z.corners[z.arc_between[1] + 1]
        b  == z.corners[z.arc_between[2] + 1]
        va == <<a[1] - c[1], a[2] - c[2]>>
        vb == <<b[1] - c[1], b[2] - c[2]>>
        p  == <<loc_x - c[1], loc_y - c[2]>>
        lo == IF Cross(va, vb) > 0 THEN va ELSE vb
        hi == IF Cross(va, vb) > 0 THEN vb ELSE va
    IN  Cross(lo, p) >= 0 /\ Cross(p, hi) >= 0

ArcDist2 ==
    (loc_x - zones[arc].arc_center[1]) * (loc_x - zones[arc].arc_center[1])
    + (loc_y - zones[arc].arc_center[2]) * (loc_y - zones[arc].arc_center[2])

InArcPolygon == point_in_polygon(loc_x, loc_y, zones[arc].corners)

\* C5: for an arc zone of radius > 150 the result is true iff the point is in
\* the straight-edge polygon, or outside it, in the arc's angular sector and
\* with |distance_to_center - arc_radius| < 30.
C5_ThreePointArcRegime ==
    (ArcTested /\ zones[arc].arc_radius > 300) =>
        LET r == zones[arc].arc_radius
        IN  in_arc <=>
              \/ InArcPolygon
              \/ /\ ~InArcPolygon
                 /\ InArcSector
                 /\ (r - 60) * (r - 60) < ArcDist2
                 /\ ArcDist2 < (r + 60) * (r + 60)

\* C6: for an arc zone of radius <= 150 the result is true only for a point in
\* the polygon that is outside the arc's angular sector or at a distance
\* >= arc_radius - 5 from the centre.
C6_PaintArcRegime ==
    (ArcTested /\ zones[arc].arc_radius <= 300 /\ in_arc) =>
        LET r == zones[arc].arc_radius
        IN  /\ InArcPolygon
            /\ ~InArcSector \/ ArcDist2 >= (r - 10) * (r - 10)

(***************************************************************************)
(* SPECIFICATION SpecPoly: one call of point_in_polygon                    *)
(***************************************************************************)

InitPoly ==
    /\ pc = "point_in_polygon"
    /\ calls = 0
    /\ corners \in PolyCorners
    /\ loc_x \in PolyCoords
    /\ loc_y \in PolyCoords
    /\ scan = ScanStart
    /\ IdleZone /\ IdleShots /\ IdleArc /\ IdleLineup /\ IdlePipeline

PointInPolygon ==
    /\ pc = "point_in_polygon"
    /\ calls = 0
    /\ calls' = 1
    /\ scan' = polygon_scan(loc_x, loc_y, corners, 1, ScanStart)
    /\ UNCHANGED <<pc, loc_x, loc_y, zone, df, df_zoned, corners, arc, in_arc, lineup_vars, pipeline_vars>>

NextPoly == PointInPolygon

SpecPoly == InitPoly /\ [][NextPoly]_vars

\* C8: point_in_polygon never divides by zero and never reads xinters before
\* it was computed for the current edge (neither a stale value of an earlier
\* edge nor an unbound name); a horizontal edge never contributes a crossing.
C8_HorizontalEdgesSkipped ==
    (pc = "point_in_polygon" /\ calls = 1) =>
        /\ ~scan.divzero
        /\ ~scan.stale
        /\ ~scan.raised
        /\ ~scan.horiz

\* A polygon with a horizontal edge at the point's own y, the point not to the
\* right of it, and the point found inside.
C8_Witness ==
    /\ pc = "point_in_polygon" /\ calls = 1
    /\ \E i \in 1..Len(corners) :
          LET p1 == corners[i]
              p2 == corners[(i % Len(corners)) + 1]
          IN  /\ p1[2] = p2[2] /\ p1[1] # p2[1]
              /\ loc_y = p1[2]
              /\ loc_x <= Max(p1[1], p2[1])
    /\ scan.inside

(***************************************************************************)
(* SPECIFICATION SpecLineup: one call of process_lineup_row, as            *)
(* build_archetype_lineups makes it (lines 390-398)                        *)
(***************************************************************************)

InitLineup ==
    /\ pc = "process_lineup_row"
    /\ calls = 0
    /\ archetype_map \in ArchetypeMaps
    /\ player_name_map = NameMapOf(archetype_map)
    /\ row \in LineupRows
    /\ output_rows = <<>>
    /\ IdlePoint /\ IdleZone /\ IdleShots /\ IdlePolygon /\ IdleArc
    /\ IdlePipeline

ProcessLineupRow ==
    /\ pc = "process_lineup_row"
    /\ calls = 0
    /\ calls' = 1
    /\ output_rows' = process_lineup_row(row, ALL_STAR_IDS, archetype_map,
                                         player_name_map)
    /\ UNCHANGED <<pc, geometry_vars, archetype_map, player_name_map, row,
                   pipeline_vars>>

NextLineup == ProcessLineupRow

SpecLineup == InitLineup /\ [][NextLineup]_vars

Resolved == pc = "process_lineup_row" /\ calls = 1

\* The player IDs of the row, and its all-stars.
RowPlayers == {parse_group_ids(row.GROUP_ID)[i] : i \in 1..5}
RowStars == RowPlayers \cap ALL_STAR_IDS
Mapped(pid) == <<pid, row.SEASON>> \in DOMAIN archetype_map

\* The row with its player IDs in ascending order.
AscendingRow == [row EXCEPT !.GROUP_ID = GroupId(Ascending(RowPlayers))]

\* s is the signature of the teammates of `star`: their four labels in
\* non-decreasing lexicographic order, joined with '-'.
IsSortedSignature(s, star) ==
    \E f \in Orders(RowPlayers \ {star}) :
        LET labels == [i \in 1..4 |-> archetype_map[<<f[i], row.SEASON>>]]
        IN  /\ \A i \in 1..3 : ~StrLt(labels[i + 1], labels[i])
            /\ s = labels[1] \o <<45>> \o labels[2] \o <<45>> \o labels[3]
                   \o <<45>> \o labels[4]

\* C9: for a fixed star, season and archetype map the LINEUP_ARCHETYPE string
\* is the same for every order of the player IDs in GROUP_ID (it is the one
\* the ascending order gives), and it is the four teammates' labels sorted
\* lexicographically and joined with '-'.
C9_SignatureCommutative ==
    Resolved =>
        LET ref == process_lineup_row(AscendingRow, ALL_STAR_IDS, archetype_map,
                                      player_name_map)
        IN  /\ Len(ref) = Len(output_rows)
            /\ \A j \in 1..Len(output_rows) :
                  /\ \E i \in 1..Len(ref) :
                        /\ ref[i].ALL_STAR_ID = output_rows[j].ALL_STAR_ID
                        /\ ref[i].LINEUP_ARCHETYPE = output_rows[j].LINEUP_ARCHETYPE
                  /\ IsSortedSignature(output_rows[j].LINEUP_ARCHETYPE,
                                       output_rows[j].ALL_STAR_ID)

\* A row whose IDs are not in ascending order and whose teammates' labels, in
\* the order of GROUP_ID, are not sorted; a signature was produced.
C9_Witness ==
    /\ Resolved
    /\ row # AscendingRow
    /\ Len(output_rows) = 1
    /\ LET star   == output_rows[1].ALL_STAR_ID
           others == SelectSeq(parse_group_ids(row.GROUP_ID), LAMBDA q : q # star)
       IN  \E i \in 1..3 :
              StrLt(archetype_map[<<others[i + 1], row.SEASON>>],
                    archetype_map[<<others[i], row.SEASON>>])

\* C10: an all-star with a teammate that has no (player_id, season) entry gets
\* no row; an all-star of the same lineup whose four teammates all have one
\* gets its row all the same; nothing else is emitted.
C10_IncompletePairDropped ==
    Resolved =>
        /\ \A s \in RowStars :
              LET n == Cardinality({j \in 1..Len(output_rows) :
                                      output_rows[j].ALL_STAR_ID = s})
              IN  IF \E q \in RowPlayers \ {s} : ~Mapped(q) THEN n = 0 ELSE n = 1
        /\ \A j \in 1..Len(output_rows) : output_rows[j].ALL_STAR_ID \in RowStars

\* Two all-stars in the lineup, one of them without an entry: the other's pair
\* is dropped and its own pair is emitted.
C10_Witness ==
    /\ Resolved
    /\ Cardinality(RowStars) = 2
    /\ \E s \in RowStars : ~Mapped(s)
    /\ Len(output_rows) = 1
    /\ ~Mapped(output_rows[1].ALL_STAR_ID)

\* C11: a row with five distinct player IDs, k of them all-stars, and every
\* player's archetype present for the season yields exactly k rows, one per
\* all-star, and each row's LINEUP_ARCHETYPE is the signature of the four
\* players other than its star, another all-star of the lineup included.
C11_OneRowPerStar ==
    (Resolved /\ Cardinality(RowPlayers) = 5 /\ \A q \in RowPlayers : Mapped(q)) =>
        /\ Len(output_rows) = Cardinality(RowStars)
        /\ \A s \in RowStars :
              \E j \in 1..Len(output_rows) :
                 /\ output_rows[j].ALL_STAR_ID = s
                 /\ \A i \in 1..Len(output_rows) :
                       output_rows[i].ALL_STAR_ID = s => i = j
                 /\ IsSortedSignature(output_rows[j].LINEUP_ARCHETYPE, s)

\* A lineup with two all-stars, all five players mapped: two rows, and the two
\* signatures differ because each holds the other all-star's label.
C11_Witness ==
    /\ Resolved
    /\ Cardinality(RowStars) = 2
    /\ \A q \in RowPlayers : Mapped(q)
    /\ Len(output_rows) = 2
    /\ output_rows[1].ALL_STAR_ID # output_rows[2].ALL_STAR_ID
    /\ output_rows[1].LINEUP_ARCHETYPE # output_rows[2].LINEUP_ARCHETYPE

(***************************************************************************)
(* THE AGGREGATORS (build_archetype_lineups.py lines 327-328, 375-576)     *)
(*                                                                         *)
(* A float is held as an unreduced fraction <<numerator, denominator>>: a  *)
(* raw table value n is <<n, 1>>, the quotient a / b is <<a, b>>, so that  *)
(* 0 / 0 is NaN and a / 0 with a # 0 is infinite, as numpy divides.  A     *)
(* cell a left merge could not fill is NaN.  Every table has one           *)
(* representative of its stat columns; the others go through the same      *)
(* expressions.                                                            *)
(***************************************************************************)

NaN == <<0, 0>>
Num(n) == <<n, 1>>
IsNaN(c) == c[1] = 0 /\ c[2] = 0
IsFinite(c) == c[2] # 0
\* a * b on two table cells.
Mul(a, b) == IF IsNaN(a) \/ IsNaN(b) THEN NaN ELSE Num(a[1] * b[1])
\* Series.sum(): the NaN cells are skipped, and the sum of none is 0.
RECURSIVE SumCells(_)
SumCells(cells) ==
    IF Len(cells) = 0 THEN 0
    ELSE (IF IsNaN(Head(cells)) THEN 0 ELSE Head(cells)[1])
         + SumCells(Tail(cells))
\* Two floats are the same number.
SameValue(a, b) ==
    IF a[2] = 0 \/ b[2] = 0 THEN a[2] = 0 /\ b[2] = 0 /\ (a[1] = 0) = (b[1] = 0)
    ELSE a[1] * b[2] = b[1] * a[2]

\* Lines 327-328.
weighted_mean(g, value_col, weight_col) ==
    << SumCells([i \in 1..Len(g) |-> Mul(g[i][value_col], g[i][weight_col])]),
       SumCells([i \in 1..Len(g) |-> g[i][weight_col]]) >>

\* Line 388: the raw rows build_archetype_lineups keeps, MIN >= 6.
\* PassesMinutesFilter_Above is the variant with MIN > 6.
PassesMinutesFilter_Above(r) == r.MIN > 6
PassesMinutesFilter(r) == r.MIN >= 6

\* Lines 390-398: the resolver's rows of every raw row, in order.
RECURSIVE resolve_rows(_, _, _)
resolve_rows(rows, amap, names) ==
    IF Len(rows) = 0 THEN <<>>
    ELSE process_lineup_row(Head(rows), ALL_STAR_IDS, amap, names)
         \o resolve_rows(Tail(rows), amap, names)

\* Lines 375-401.
build_archetype_lineups(amap, names, df_lineups) ==
    resolve_rows(SelectSeq(df_lineups, PassesMinutesFilter), amap, names)

\* DataFrame.merge(right[cols + keys], on = ["SEASON", "GROUP_ID"],
\* how = "left"): every left row once per right row of the same key, in
\* order, or once with NaN in the new columns when no right row has the key.
RECURSIVE merge_left(_, _, _)
merge_left(left, right, cols) ==
    IF Len(left) = 0 THEN <<>>
    ELSE
    LET l    == Head(left)
        hits == SelectSeq(right, LAMBDA r : /\ r.SEASON = l.SEASON
                                            /\ r.GROUP_ID = l.GROUP_ID)
        rows == IF Len(hits) = 0 THEN << l @@ [c \in cols |-> NaN] >>
                ELSE [i \in 1..Len(hits) |->
                        l @@ [c \in cols |-> Num(hits[i][c])]]
    IN  rows \o merge_left(Tail(left), right, cols)

\* groupby(["ALL_STAR_ID", "LINEUP_ARCHETYPE"]): the group keys in sorted
\* order, and the rows of one group in table order.
GroupKeyLt(a, b) == a[1] < b[1] \/ (a[1] = b[1] /\ StrLt(a[2], b[2]))
RECURSIVE SortedKeys(_)
SortedKeys(K) ==
    IF K = {} THEN <<>>
    ELSE LET m == CHOOSE x \in K : \A y \in K \ {x} : GroupKeyLt(x, y)
         IN  <<m>> \o SortedKeys(K \ {m})
group_keys(t) ==
    SortedKeys({<<t[i].ALL_STAR_ID, t[i].LINEUP_ARCHETYPE>> : i \in 1..Len(t)})
group_of(t, key) ==
    SelectSeq(t, LAMBDA r : r.ALL_STAR_ID = key[1] /\ r.LINEUP_ARCHETYPE = key[2])

\* ("ALL_STAR_NAME", "first") and g["ALL_STAR_NAME"].iloc[0].
first_name(g) ==
    LET named == SelectSeq(g, LAMBDA r : r.ALL_STAR_NAME # None)
    IN  IF Len(named) = 0 THEN None ELSE named[1].ALL_STAR_NAME

\* Lines 448-449, 506-507, 562-563:
\* df[[player1_archetype .. player4_archetype]] =
\*     df["LINEUP_ARCHETYPE"].str.split("-", expand = True).
\* The split frame has as many columns as the longest row has pieces; the
\* assignment to four columns raises when that is not four.
split_raises(t) ==
    \E i \in 1..Len(t) : Len(Split(t[i].LINEUP_ARCHETYPE, Hyphen)) # 4
split_archetypes(r) ==
    LET parts == Split(r.LINEUP_ARCHETYPE, Hyphen)
    IN  r @@ [c \in {"player1_archetype", "player2_archetype",
                     "player3_archetype", "player4_archetype"} |->
                 CASE c = "player1_archetype" -> parts[1]
                   [] c = "player2_archetype" -> parts[2]
                   [] c = "player3_archetype" -> parts[3]
                   [] c = "player4_archetype" -> parts[4]]

\* sort_values(by = ["star_player", "min_sum"], ascending = [True, False]):
\* the names in str order, a missing name last, ties in table order.
NameOrder ==
    <<"Mate 1", "Mate 2", "Mate 3", "Mate 4", "Mate 5", "Star A", "Star B", None>>
NameRank(name) == CHOOSE i \in 1..Len(NameOrder) : NameOrder[i] = name
SortsBefore(a, b) ==
    \/ NameRank(a.star_player) < NameRank(b.star_player)
    \/ a.star_player = b.star_player /\ a.min_sum > b.min_sum
RECURSIVE InsertRow(_, _)
InsertRow(x, l) ==
    IF Len(l) = 0 THEN <<x>>
    ELSE IF SortsBefore(x, Head(l)) THEN <<x>> \o l
    ELSE <<Head(l)>> \o InsertRow(x, Tail(l))
RECURSIVE sort_values(_)
sort_values(t) ==
    IF Len(t) = 0 THEN <<>>
    ELSE InsertRow(t[Len(t)], sort_values(SubSeq(t, 1, Len(t) - 1)))

\* The tail every aggregator shares: split the signature, order the rows.
\* An empty df_archetype_lineups is a frame without columns, and the merge
\* on SEASON and GROUP_ID raises.
finish_table(archetype_lineups, grouped) ==
    IF Len(archetype_lineups) = 0 \/ split_raises(grouped)
    THEN [raised |-> TRUE, rows |-> <<>>]
    ELSE [raised |-> FALSE,
          rows |-> sort_values([i \in 1..Len(grouped) |->
                                  split_archetypes(grouped[i])])]

\* Lines 407-469.
build_efficiency_df(archetype_lineups, df_lineups) ==
    LET merged == merge_left(archetype_lineups, df_lineups, {"MIN", "OFF_RATING"})
        keys   == group_keys(merged)
        grouped(k) ==
            LET g == group_of(merged, k)
                off_weighted_sum ==
                    SumCells([i \in 1..Len(g) |-> Mul(g[i].MIN, g[i].OFF_RATING)])
                min_sum == SumCells([i \in 1..Len(g) |-> g[i].MIN])
            IN  [star_player      |-> first_name(g),
                 LINEUP_ARCHETYPE |-> k[2],
                 offensive_rating |-> <<off_weighted_sum, min_sum>>,
                 min_sum          |-> min_sum]
    IN  finish_table(archetype_lineups, [j \in 1..Len(keys) |-> grouped(keys[j])])

\* Lines 474-516.
build_tendencies_df(archetype_lineups, scoring, advanced) ==
    LET merged == merge_left(merge_left(archetype_lineups, scoring, {"PCT_PTS_3PT"}),
                             advanced, {"MIN"})
        keys   == group_keys(merged)
        grouped(k) ==
            LET g == group_of(merged, k)
            IN  [star_player      |-> first_name(g),
                 LINEUP_ARCHETYPE |-> k[2],
                 pct_pts_3pt      |-> weighted_mean(g, "PCT_PTS_3PT", "MIN"),
                 min_sum          |-> SumCells([i \in 1..Len(g) |-> g[i].MIN])]
    IN  finish_table(archetype_lineups, [j \in 1..Len(keys) |-> grouped(keys[j])])

\* Line 560: df["fg_pct"] * 100.
Times100(c) == <<100 * c[1], c[2]>>

\* Lines 518-576.
build_team_vs_opponent_df(archetype_lineups, opponent, base) ==
    LET merged == merge_left(merge_left(archetype_lineups, base, {"MIN", "FG_PCT"}),
                             opponent, {"OPP_FG_PCT"})
        keys   == group_keys(merged)
        grouped(k) ==
            LET g == group_of(merged, k)
            IN  [star_player      |-> first_name(g),
                 LINEUP_ARCHETYPE |-> k[2],
                 fg_pct     |-> Times100(weighted_mean(g, "FG_PCT", "MIN")),
                 opp_fg_pct |-> Times100(weighted_mean(g, "OPP_FG_PCT", "MIN")),
                 min_sum    |-> SumCells([i \in 1..Len(g) |-> g[i].MIN])]
    IN  finish_table(archetype_lineups, [j \in 1..Len(keys) |-> grouped(keys[j])])

(***************************************************************************)
(* SPECIFICATION SpecAggregate: load_lineups_data lines 18-22, the         *)
(* resolver over the raw advanced table and then the three aggregators.    *)
(***************************************************************************)

\* The raw tables have up to MaxRawRows rows.
MaxRawRows == 3

\* The archetype table of these runs: the two all-stars have two lineups of
\* the same signature in 2023-24 (players 103 and 105 share a label), and the
\* 2024-25 signatures of that lineup have no '-' inside a label.
AggArchetypes ==
    [k \in DOMAIN FullArchetypes |->
        IF k = <<105, "2023-24">> THEN L_3andD
        ELSE IF k = <<102, "2024-25">> THEN L_Post_Scorer
        ELSE FullArchetypes[k]]

G_OneStar  == GroupId(<<101, 102, 103, 104, 2544>>)
G_TwoStars == GroupId(<<101, 102, 103, 2544, 201939>>)
G_SameSignature == GroupId(<<101, 102, 105, 2544, 201939>>)

\* One lineup's line in the four raw tables: the minutes and one stat of each
\* table.  Two lines of the same (SEASON, GROUP_ID), one of them and a third
\* under the minutes threshold or exactly on it, a second lineup with the
\* same signatures, a lineup whose signature holds 'All-Around Guard', and
\* the same GROUP_ID in the other season.
RawLine(se, g, min, off, p3, fg, opp) ==
    [SEASON |-> se, GROUP_ID |-> g, GROUP_NAME |-> "lineup", MIN |-> min,
     OFF_RATING |-> off, PCT_PTS_3PT |-> p3, FG_PCT |-> fg, OPP_FG_PCT |-> opp]
RawSamples ==
    { RawLine("2023-24", G_TwoStars,      10, 100, 30, 45, 50),
      RawLine("2023-24", G_SameSignature, 20, 110, 40, 50, 40),
      RawLine("2023-24", G_TwoStars,      30, 120, 35, 40, 45),
      RawLine("2023-24", G_TwoStars,       4,  90, 20, 30, 60),
      RawLine("2023-24", G_OneStar,        6, 105, 25, 48, 47),
      RawLine("2024-25", G_TwoStars,      20, 115, 45, 52, 42) }
RawTables == UNION {[1..n -> RawSamples] : n \in 0..MaxRawRows}

\* A raw table other than the advanced one may lack one of the lines.
AuxTables == {"scoring", "base", "opponent"}
Without(t, name, absent) ==
    SelectSeq([i \in 1..Len(t) |-> [line |-> t[i], i |-> i]],
              LAMBDA e : <<name, e.i>> \notin absent)
TableOf(t, name, absent) ==
    LET kept == Without(t, name, absent)
    IN  [i \in 1..Len(kept) |-> kept[i].line]

Loading == pc = "load_lineups_data"

InitAggregate ==
    /\ pc = "load_lineups_data"
    /\ calls = 0
    /\ archetype_map = AggArchetypes
    /\ player_name_map = NameMapOf(archetype_map)
    /\ df_advanced \in RawTables
    /\ \E absent \in {{}} \cup {{<<a, i>>} : a \in AuxTables, i \in 1..Len(df_advanced)} :
          /\ df_scoring  = TableOf(df_advanced, "scoring", absent)
          /\ df_base     = TableOf(df_advanced, "base", absent)
          /\ df_opponent = TableOf(df_advanced, "opponent", absent)
    /\ IdleBuilt /\ IdleLoader
    /\ row = <<>> /\ output_rows = <<>>
    /\ IdlePoint /\ IdleZone /\ IdleShots /\ IdlePolygon /\ IdleArc

\* Line 18.
BuildArchetypeLineups ==
    /\ Loading /\ calls = 0
    /\ calls' = 1
    /\ df_archetype_lineups' =
          build_archetype_lineups(archetype_map, player_name_map, df_advanced)
    /\ UNCHANGED <<pc, geometry_vars, lineup_vars, raw_vars, loader_vars, df_efficiency,
                   df_tendencies, df_team_vs_opponent, df_scores>>

\* Line 20.
BuildEfficiencyDf ==
    /\ Loading /\ calls = 1
    /\ calls' = 2
    /\ df_efficiency' = build_efficiency_df(df_archetype_lineups, df_advanced)
    /\ UNCHANGED <<pc, geometry_vars, lineup_vars, raw_vars, loader_vars, df_archetype_lineups,
                   df_tendencies, df_team_vs_opponent, df_scores>>

\* Line 21; an exception of line 20 ends the run.
BuildTendenciesDf ==
    /\ Loading /\ calls = 2 /\ ~df_efficiency.raised
    /\ calls' = 3
    /\ df_tendencies' =
          build_tendencies_df(df_archetype_lineups, df_scoring, df_advanced)
    /\ UNCHANGED <<pc, geometry_vars, lineup_vars, raw_vars, loader_vars, df_archetype_lineups,
                   df_efficiency, df_team_vs_opponent, df_scores>>

\* Line 22.
BuildTeamVsOpponentDf ==
    /\ Loading /\ calls = 3 /\ ~df_tendencies.raised
    /\ calls' = 4
    /\ df_team_vs_opponent' =
          build_team_vs_opponent_df(df_archetype_lineups, df_opponent, df_base)
    /\ UNCHANGED <<pc, geometry_vars, lineup_vars, raw_vars, loader_vars, df_archetype_lineups,
                   df_efficiency, df_tendencies, df_scores>>

NextAggregate ==
    \/ BuildArchetypeLineups
    \/ BuildEfficiencyDf
    \/ BuildTendenciesDf
    \/ BuildTeamVsOpponentDf

SpecAggregate == InitAggregate /\ [][NextAggregate]_vars

Resolving == Loading /\ calls >= 1

\* The rows the resolver gives for the raw lines of one (SEASON, GROUP_ID)
\* that pass MIN >= 6, counted line by line.
RECURSIVE ExpectedRows(_, _, _)
ExpectedRows(t, se, g) ==
    IF Len(t) = 0 THEN 0
    ELSE (IF Head(t).SEASON = se /\ Head(t).GROUP_ID = g /\ Head(t).MIN >= 6
          THEN Len(process_lineup_row(Head(t), ALL_STAR_IDS, archetype_map,
                                      player_name_map))
          ELSE 0)
         + ExpectedRows(Tail(t), se, g)
ResolvedRowsOf(se, g) ==
    Cardinality({j \in 1..Len(df_archetype_lineups) :
                    /\ df_archetype_lineups[j].SEASON = se
                    /\ df_archetype_lineups[j].GROUP_ID = g})

\* C12: build_archetype_lineups resolves exactly the raw rows with MIN >= 6:
\* per (SEASON, GROUP_ID) its output has the resolver's rows of the raw rows
\* with MIN >= 6 (6 included), and none for a raw row with MIN < 6.
C12_MinimumMinutesFilter ==
    Resolving =>
        \A i \in 1..Len(df_advanced) :
            ResolvedRowsOf(df_advanced[i].SEASON, df_advanced[i].GROUP_ID)
              = ExpectedRows(df_advanced, df_advanced[i].SEASON,
                             df_advanced[i].GROUP_ID)

\* A table with a row of MIN 4 whose lineup gets no row at all, and a row of
\* MIN exactly 6 that was resolved.
C12_Witness ==
    /\ Resolving
    /\ \E i, j \in 1..Len(df_advanced) :
          /\ df_advanced[i].MIN < 6
          /\ ResolvedRowsOf(df_advanced[i].SEASON, df_advanced[i].GROUP_ID) = 0
          /\ df_advanced[j].MIN = 6
          /\ ResolvedRowsOf(df_advanced[j].SEASON, df_advanced[j].GROUP_ID) > 0

\* The three aggregated tables are built.
Aggregated == Loading /\ calls = 4 /\ ~df_team_vs_opponent.raised

\* The raw rows that passed the minutes filter and were resolved to the pair
\* (star_player, LINEUP_ARCHETYPE), each once.
ContributingRows(star, signature) ==
    SelectSeq(df_advanced, LAMBDA r :
        /\ r.MIN >= 6
        /\ LET out == process_lineup_row(r, ALL_STAR_IDS, archetype_map,
                                         player_name_map)
           IN  \E j \in 1..Len(out) : /\ out[j].ALL_STAR_NAME = star
                                      /\ out[j].LINEUP_ARCHETYPE = signature)
RECURSIVE SumOf(_, _)
SumOf(rows, col) ==
    IF Len(rows) = 0 THEN 0 ELSE Head(rows)[col] + SumOf(Tail(rows), col)
MinSumExact(table) ==
    \A i \in 1..Len(table.rows) :
        table.rows[i].min_sum =
            SumOf(ContributingRows(table.rows[i].star_player,
                                   table.rows[i].LINEUP_ARCHETYPE), "MIN")

\* C13: in the efficiency, tendencies and team-vs-opponent tables, min_sum of
\* every row is the sum of MIN over exactly the raw rows resolved to the row's
\* (all-star, LINEUP_ARCHETYPE) pair, each counted once, and no row under the
\* minutes threshold or of another pair counted.
C13_MinSumExact ==
    Aggregated =>
        /\ MinSumExact(df_efficiency)
        /\ MinSumExact(df_tendencies)
        /\ MinSumExact(df_team_vs_opponent)

\* sum(S_i * MIN_i) / sum(MIN_i) over the raw rows of the pair, S_i and MIN_i
\* of the same raw row.
RECURSIVE SumProduct(_, _)
SumProduct(rows, col) ==
    IF Len(rows) = 0 THEN 0
    ELSE Head(rows)[col] * Head(rows).MIN + SumProduct(Tail(rows), col)
MinutesWeightedMean(r, col) ==
    LET rows == ContributingRows(r.star_player, r.LINEUP_ARCHETYPE)
    IN  <<SumProduct(rows, col), SumOf(rows, "MIN")>>

\* C14: every aggregated stat is sum(S_i * MIN_i) / sum(MIN_i) over the raw
\* rows of its (all-star, LINEUP_ARCHETYPE) group, S_i and MIN_i taken from
\* the same raw row, also when the stat's table is not the table of MIN.
C14_MinutesWeightedMean ==
    Aggregated =>
        /\ \A i \in 1..Len(df_efficiency.rows) :
              LET r == df_efficiency.rows[i]
              IN  SameValue(r.offensive_rating, MinutesWeightedMean(r, "OFF_RATING"))
        /\ \A i \in 1..Len(df_tendencies.rows) :
              LET r == df_tendencies.rows[i]
              IN  SameValue(r.pct_pts_3pt, MinutesWeightedMean(r, "PCT_PTS_3PT"))
        /\ \A i \in 1..Len(df_team_vs_opponent.rows) :
              LET r == df_team_vs_opponent.rows[i]
              IN  /\ SameValue(r.fg_pct, Times100(MinutesWeightedMean(r, "FG_PCT")))
                  /\ SameValue(r.opp_fg_pct,
                               Times100(MinutesWeightedMean(r, "OPP_FG_PCT")))

\* C15: a group whose minutes sum to zero makes the aggregator fail: no
\* aggregated table that was returned holds a row with min_sum = 0 (its
\* weighted means would be 0 / 0).
C15_ZeroMinutesRaises ==
    /\ \A i \in 1..Len(df_efficiency.rows) :
          df_efficiency.rows[i].min_sum # 0
    /\ \A i \in 1..Len(df_tendencies.rows) :
          df_tendencies.rows[i].min_sum # 0
    /\ \A i \in 1..Len(df_team_vs_opponent.rows) :
          df_team_vs_opponent.rows[i].min_sum # 0

\* The (all-star name, signature) pairs the resolver produced.
ResolvedPairs ==
    {<<df_archetype_lineups[j].ALL_STAR_NAME,
       df_archetype_lineups[j].LINEUP_ARCHETYPE>> :
        j \in 1..Len(df_archetype_lineups)}
EfficiencyBuilt == Loading /\ calls >= 2

\* C16: every resolved pair has its aggregated row, and the row's
\* player1_archetype..player4_archetype are four archetype labels, in sorted
\* order, whose signature is the row's LINEUP_ARCHETYPE, for labels with and
\* without '-'.
C16_SignatureRoundTrip ==
    EfficiencyBuilt =>
        /\ \A pair \in ResolvedPairs :
              \E i \in 1..Len(df_efficiency.rows) :
                 /\ df_efficiency.rows[i].star_player = pair[1]
                 /\ df_efficiency.rows[i].LINEUP_ARCHETYPE = pair[2]
        /\ \A i \in 1..Len(df_efficiency.rows) :
              LET r == df_efficiency.rows[i]
                  labels == <<r.player1_archetype, r.player2_archetype,
                              r.player3_archetype, r.player4_archetype>>
              IN  /\ \A n \in 1..4 : labels[n] \in ArchetypeLabels
                  /\ \A n \in 1..3 : ~StrLt(labels[n + 1], labels[n])
                  /\ Join(labels, Hyphen) = r.LINEUP_ARCHETYPE

(***************************************************************************)
(* SCORING (lineup_score.py)                                               *)
(*                                                                         *)
(* The metric values of the scored tables are whole numbers.  A z-score is *)
(* the fraction <<(x - mean) * n * Micro, (std * n) * Micro + n * eps *    *)
(* Micro>>, numerator and denominator of (x - mean) / (std + eps) both     *)
(* multiplied by n * Micro, with the square root taken to 1 / SqrtScale.   *)
(* The scores are fixed-point fractions <<value, scale>>, NaN is <<0, 0>>. *)
(***************************************************************************)

\* Line 11: the resolution at which 1e-6 is one unit.
Micro == 1000000
\* Line 11: x.std(ddof=0) is computed to 1 / SqrtScale.
SqrtScale == 500
\* Line 11: the 1e-6 added to the standard deviation.  Epsilon_None is the
\* variant without it.
Epsilon_None == <<0, 1>>
Epsilon == <<1, 1000000>>
\* Line 31.
MIN_THRESH == 55

\* The integer square root, by bisection.
RECURSIVE IsqrtIn(_, _, _)
IsqrtIn(n, lo, hi) ==
    IF lo = hi THEN lo
    ELSE LET mid == (lo + hi + 1) \div 2
         IN  IF mid * mid <= n THEN IsqrtIn(n, mid, hi)
             ELSE IsqrtIn(n, lo, mid - 1)
Isqrt(n) == IsqrtIn(n, 0, 46340)

RECURSIVE SumInts(_)
SumInts(s) == IF Len(s) = 0 THEN 0 ELSE Head(s) + SumInts(Tail(s))

\* Lines 8-12: groupby("star_player")[col].transform(
\*     lambda x: (x - x.mean()) / (x.std(ddof=0) + 1e-6)),
\* for the column whose cells are `cells`.  mean and std skip the NaN cells;
\* a row without a star_player is in no group and gets NaN.
\* zscore_per_star_AllRows is the variant that takes mean and std over the
\* whole table.
ZOfGroup(cells, group, i) ==
    LET xs  == [k \in 1..Len(group) |-> cells[group[k]][1]]
        n   == Len(xs)
        sum == SumInts(xs)
        dev(k) == n * xs[k] - sum
        var == SumInts([k \in 1..n |-> dev(k) * dev(k)])
        sd  == Isqrt((var * SqrtScale * SqrtScale) \div n) * (Micro \div SqrtScale)
    IN  << (n * cells[i][1] - sum) * Micro,
           sd + n * ((Epsilon[1] * Micro) \div Epsilon[2]) >>
Indices(frame) == [k \in 1..Len(frame) |-> k]
zscore_per_star_AllRows(frame, cells) ==
    [i \in 1..Len(frame) |->
        IF frame[i].star_player = None \/ IsNaN(cells[i]) THEN NaN
        ELSE ZOfGroup(cells,
                      SelectSeq(Indices(frame), LAMBDA j : ~IsNaN(cells[j])), i)]
zscore_per_star(frame, cells) ==
    [i \in 1..Len(frame) |->
        IF frame[i].star_player = None \/ IsNaN(cells[i]) THEN NaN
        ELSE ZOfGroup(cells,
                      SelectSeq(Indices(frame), LAMBDA j :
                          /\ frame[j].star_player = frame[i].star_player
                          /\ ~IsNaN(cells[j])), i)]

\* Lines 37-51.
EFF_COLS == <<"net_rating", "offensive_rating", "defensive_rating">>
STYLE_COLS ==
    <<"pct_pts_3pt", "pct_pts_paint", "pct_pts_fb", "pct_pts_2pt_mr",
      "pct_ast_fgm", "pct_uast_fgm", "efg_pct", "ts_pct">>
DEF_COLS ==
    << <<"fg_pct", "opp_fg_pct">>, <<"ast", "opp_ast">>,
       <<"oreb", "opp_oreb">>, <<"dreb", "opp_dreb">>,
       <<"tov", "opp_tov">>, <<"stl", "opp_stl">>,
       <<"blk", "opp_blk">>, <<"pf", "opp_pf">> >>
Range(s) == {s[k] : k \in 1..Len(s)}
TEAM_COLS == {p[1] : p \in Range(DEF_COLS)} \cup {p[2] : p \in Range(DEF_COLS)}

\* The name of a derived column: c + "_Z" and team_col + "_DELTA_Z".
ZName(c) ==
    CASE c = "net_rating" -> "net_rating_Z"
      [] c = "offensive_rating" -> "offensive_rating_Z"
      [] c = "defensive_rating" -> "defensive_rating_Z"
      [] c = "pct_pts_3pt" -> "pct_pts_3pt_Z"
      [] c = "pct_pts_paint" -> "pct_pts_paint_Z"
      [] c = "pct_pts_fb" -> "pct_pts_fb_Z"
      [] c = "pct_pts_2pt_mr" -> "pct_pts_2pt_mr_Z"
      [] c = "pct_ast_fgm" -> "pct_ast_fgm_Z"
      [] c = "pct_uast_fgm" -> "pct_uast_fgm_Z"
      [] c = "efg_pct" -> "efg_pct_Z"
      [] c = "ts_pct" -> "ts_pct_Z"
      [] c = "fg_pct" -> "fg_pct_DELTA_Z"
      [] c = "ast" -> "ast_DELTA_Z"
      [] c = "oreb" -> "oreb_DELTA_Z"
      [] c = "dreb" -> "dreb_DELTA_Z"
      [] c = "tov" -> "tov_DELTA_Z"
      [] c = "stl" -> "stl_DELTA_Z"
      [] c = "blk" -> "blk_DELTA_Z"
      [] c = "pf" -> "pf_DELTA_Z"
Z_COLS == {ZName(c) : c \in Range(EFF_COLS) \cup Range(STYLE_COLS)}
            \cup {ZName(p[1]) : p \in Range(DEF_COLS)}

\* Lines 66-89: the weights, in hundredths.
EFF_WEIGHTS ==
    << <<70, "net_rating_Z">>, <<50, "offensive_rating_Z">>,
       <<-20, "defensive_rating_Z">> >>
STYLE_WEIGHTS ==
    << <<25, "efg_pct_Z">>, <<10, "pct_ast_fgm_Z">>, <<10, "pct_uast_fgm_Z">>,
       <<15, "ts_pct_Z">>, <<10, "pct_pts_3pt_Z">>, <<10, "pct_pts_paint_Z">>,
       <<10, "pct_pts_fb_Z">>, <<10, "pct_pts_2pt_mr_Z">> >>
DEF_WEIGHTS ==
    << <<-25, "tov_DELTA_Z">>, <<50, "stl_DELTA_Z">>, <<50, "dreb_DELTA_Z">>,
       <<50, "blk_DELTA_Z">>, <<-25, "pf_DELTA_Z">> >>

\* A z-score in thousandths.
ZMilli(z) == IF z[1] = 0 THEN 0 ELSE z[1] \div (z[2] \div 1000)
\* Lines 66-89: a weighted sum of z-score columns of one row, in 1e-5; NaN as
\* soon as one of them is NaN.
weighted_score(r, weights) ==
    IF \E k \in 1..Len(weights) : IsNaN(r[weights[k][2]]) THEN NaN
    ELSE << SumInts([k \in 1..Len(weights) |->
                        weights[k][1] * ZMilli(r[weights[k][2]])]),
            100000 >>

\* Fixed-point numbers in [0, 1]: One is 1.
One == 10000
FixMul(a, b) == (a * b) \div One
RECURSIVE FixPow(_, _)
FixPow(a, k) == IF k = 0 THEN One ELSE FixMul(a, FixPow(a, k - 1))
\* The largest c in [0, 1] with c^20 <= t.
RECURSIVE Root20In(_, _, _)
Root20In(t, lo, hi) ==
    IF lo = hi THEN lo
    ELSE LET mid == (lo + hi + 1) \div 2
         IN  IF FixPow(mid, 20) <= t THEN Root20In(t, mid, hi)
             ELSE Root20In(t, lo, mid - 1)
\* Line 97: x ** 1.35 for x in [0, 1], as x * (x^7)^(1/20).
Pow135(x) == FixMul(x, Root20In(FixPow(x, 7), 0, One))

\* The binary logarithm of an integer x >= 1 with LogBits fractional bits:
\* the exponent, then the bits of the mantissa by repeated squaring.
LogBits == 8
Mantissa == 16384
RECURSIVE Pow2(_)
Pow2(k) == IF k = 0 THEN 1 ELSE 2 * Pow2(k - 1)
RECURSIVE Exponent(_)
Exponent(x) == IF x < 2 THEN 0 ELSE 1 + Exponent(x \div 2)
RECURSIVE LogFraction(_, _)
LogFraction(y, bits) ==
    IF bits = 0 THEN 0
    ELSE LET sq == (y * y) \div Mantissa
         IN  IF sq >= 2 * Mantissa
             THEN Pow2(bits - 1) + LogFraction(sq \div 2, bits - 1)
             ELSE LogFraction(sq, bits - 1)
Log2Fixed(x) ==
    LET e == Exponent(x)
    IN  e * Pow2(LogBits) + LogFraction((x * Mantissa) \div Pow2(e), LogBits)
\* Line 95: np.log1p(x) for a whole x >= 0, in binary-log units (MIN_CONF is
\* a ratio of two logarithms, whose base cancels).
log1p(x) == Log2Fixed(1 + x)

\* Line 96: df.groupby("star_player")["min_sum"].transform("max").
\* max_min_sum_AllRows is the variant that takes the maximum of the table.
RECURSIVE MaxOf(_)
MaxOf(s) == IF Len(s) = 1 THEN s[1] ELSE Max(s[1], MaxOf(Tail(s)))
max_min_sum_AllRows(frame, i) ==
    MaxOf([k \in 1..Len(frame) |-> frame[k].min_sum[1]])
max_min_sum(frame, i) ==
    LET group == SelectSeq(frame, LAMBDA r : r.star_player = frame[i].star_player)
    IN  MaxOf([k \in 1..Len(group) |-> group[k].min_sum[1]])

\* Lines 94-97.
MIN_CONF(frame, i) ==
    IF frame[i].star_player = None THEN NaN
    ELSE << Pow135((log1p(frame[i].min_sum[1]) * One)
                     \div log1p(max_min_sum(frame, i))), One >>

\* Lines 102-106, in 1e-8.
QUALITY_SCORE(r) ==
    IF IsNaN(r.EFF_SCORE) \/ IsNaN(r.STYLE_SCORE) \/ IsNaN(r.DEF_SCORE)
       \/ IsNaN(r.MIN_CONF)
    THEN NaN
    ELSE << ((45 * r.EFF_SCORE[1] + 30 * r.STYLE_SCORE[1] + 25 * r.DEF_SCORE[1])
               \div 100) * (r.MIN_CONF[1] \div 10),
            100000000 >>

\* Lines 26-30: merge(right, on = ["star_player", "LINEUP_ARCHETYPE"],
\* how = "left").  min_sum of the efficiency and of the tendencies table get
\* the suffixes _x and _y in the first merge, so the min_sum of the merged
\* frame is the one of the team-vs-opponent table.
RECURSIVE merge_on_pair(_, _, _)
merge_on_pair(left, right, cols) ==
    IF Len(left) = 0 THEN <<>>
    ELSE
    LET l    == Head(left)
        hits == SelectSeq(right, LAMBDA r :
                    /\ r.star_player = l.star_player
                    /\ r.LINEUP_ARCHETYPE = l.LINEUP_ARCHETYPE)
        rows == IF Len(hits) = 0 THEN << l @@ [c \in cols |-> NaN] >>
                ELSE [k \in 1..Len(hits) |-> l @@ [c \in cols |-> hits[k][c]]]
    IN  rows \o merge_on_pair(Tail(left), right, cols)
\* One table with its min_sum as a float column of the name it has after
\* the merges.
Renamed(table, cols, min_sum_name) ==
    [k \in 1..Len(table) |->
        [c \in cols \cup {"star_player", "LINEUP_ARCHETYPE", min_sum_name} |->
            IF c = min_sum_name THEN Num(table[k].min_sum) ELSE table[k][c]]]
merge_tables(efficiency, tendencies, team_vs_opponent) ==
    merge_on_pair(
        merge_on_pair(Renamed(efficiency, Range(EFF_COLS), "min_sum_x"),
                      Renamed(tendencies, Range(STYLE_COLS), "min_sum_y"),
                      Range(STYLE_COLS) \cup {"min_sum_y"}),
        Renamed(team_vs_opponent, TEAM_COLS, "min_sum"),
        TEAM_COLS \cup {"min_sum"})

\* Line 32: df[df["min_sum"] >= MIN_THRESH]; a NaN compares False.
\* Qualifies_Above is the variant with min_sum > MIN_THRESH.
Qualifies_Above(r) == ~IsNaN(r.min_sum) /\ r.min_sum[1] > MIN_THRESH
Qualifies(r) == ~IsNaN(r.min_sum) /\ r.min_sum[1] >= MIN_THRESH

\* Minus on two cells.
Sub(a, b) == IF IsNaN(a) \/ IsNaN(b) THEN NaN ELSE Num(a[1] - b[1])

\* Lines 53-61: the cells a z-score column is computed from, and the frame
\* with its z-score columns.
ZCells(frame, n) ==
    IF \E c \in Range(EFF_COLS) \cup Range(STYLE_COLS) : ZName(c) = n
    THEN LET c == CHOOSE c \in Range(EFF_COLS) \cup Range(STYLE_COLS) : ZName(c) = n
         IN  [i \in 1..Len(frame) |-> frame[i][c]]
    ELSE LET p == CHOOSE p \in Range(DEF_COLS) : ZName(p[1]) = n
         IN  [i \in 1..Len(frame) |-> Sub(frame[i][p[1]], frame[i][p[2]])]
with_zscores(frame) ==
    LET z == [n \in Z_COLS |-> zscore_per_star(frame, ZCells(frame, n))]
    IN  [i \in 1..Len(frame) |-> frame[i] @@ [n \in Z_COLS |-> z[n][i]]]

\* Lines 108-111: sort_values(["star_player", "QUALITY_SCORE"],
\* ascending = [True, False]); a NaN score goes last within its star.
\* ScoreBefore_Ascending is the variant with ascending = [True, True].
ScoreBefore_Ascending(a, b) ==
    \/ NameRank(a.star_player) < NameRank(b.star_player)
    \/ /\ a.star_player = b.star_player
       /\ ~IsNaN(a.QUALITY_SCORE)
       /\ (IsNaN(b.QUALITY_SCORE) \/ a.QUALITY_SCORE[1] < b.QUALITY_SCORE[1])
ScoreBefore(a, b) ==
    \/ NameRank(a.star_player) < NameRank(b.star_player)
    \/ /\ a.star_player = b.star_player
       /\ ~IsNaN(a.QUALITY_SCORE)
       /\ (IsNaN(b.QUALITY_SCORE) \/ a.QUALITY_SCORE[1] > b.QUALITY_SCORE[1])
RECURSIVE InsertScored(_, _)
InsertScored(x, l) ==
    IF Len(l) = 0 THEN <<x>>
    ELSE IF ScoreBefore(x, Head(l)) THEN <<x>> \o l
    ELSE <<Head(l)>> \o InsertScored(x, Tail(l))
RECURSIVE sort_scores(_)
sort_scores(t) ==
    IF Len(t) = 0 THEN <<>>
    ELSE InsertScored(t[Len(t)], sort_scores(SubSeq(t, 1, Len(t) - 1)))

\* Lines 17-111.
lineups_scores(efficiency, tendencies, team_vs_opponent) ==
    LET frame   == SelectSeq(merge_tables(efficiency, tendencies, team_vs_opponent),
                          Qualifies)
        zs   == with_zscores(frame)
        comp == [i \in 1..Len(zs) |->
                   zs[i] @@ [EFF_SCORE   |-> weighted_score(zs[i], EFF_WEIGHTS),
                             STYLE_SCORE |-> weighted_score(zs[i], STYLE_WEIGHTS),
                             DEF_SCORE   |-> weighted_score(zs[i], DEF_WEIGHTS),
                             MIN_CONF    |-> MIN_CONF(frame, i)]]
    IN  [raised |-> FALSE,
         rows |-> sort_scores([i \in 1..Len(comp) |->
                     comp[i] @@ [QUALITY_SCORE |-> QUALITY_SCORE(comp[i])]])]

(***************************************************************************)
(* SPECIFICATION SpecScores: one call of lineups_scores on three           *)
(* aggregated tables (load_lineups.py line 30).                            *)
(***************************************************************************)

\* The aggregated tables have up to MaxLineups rows.
MaxLineups == 4

\* The columns of the three tables, in one order.
MetricColumns ==
    EFF_COLS \o STYLE_COLS
    \o [k \in 1..Len(DEF_COLS) |-> DEF_COLS[k][1]]
    \o [k \in 1..Len(DEF_COLS) |-> DEF_COLS[k][2]]
ColumnIndex(c) == CHOOSE k \in 1..Len(MetricColumns) : MetricColumns[k] = c
\* The value of column c in the lineup of seed `seed`: a whole number in 0..4.
MetricValue(seed, c) == (seed * (ColumnIndex(c) + 1) + ColumnIndex(c)) % 5

\* The signatures of the lineups: three fixed labels and a fourth.
FourthLabels == <<L_Stretch_Big, L_Pure_Point_Guard, L_Movement_Shooter, L_3andD>>
Signature(k) ==
    lineup_signature(<<L_3andD, L_Glue_Guy, L_Post_Scorer, FourthLabels[k]>>)

\* The lineups of two stars: total minutes under, on and over the floor of
\* 55, and two lineups of one star with the same value in every column.
Lineup(star, k, seed, min_sum) ==
    [star_player |-> star, signature |-> k, seed |-> seed, min_sum |-> min_sum]
ScoreSamples ==
    << Lineup("Star A", 1, 1, 150), Lineup("Star A", 2, 2, 60),
       Lineup("Star A", 3, 3, 55),  Lineup("Star A", 4, 4, 40),
       Lineup("Star B", 1, 5, 90),  Lineup("Star B", 2, 6, 40),
       Lineup("Star B", 3, 5, 60) >>

\* The rows of one aggregated table for the lineups of `chosen` (indices of
\* ScoreSamples), in the order the aggregators leave them in; the lineups of
\* `absent` are not in the table and the min_sum of those of `less` is lower
\* by 10.
AggregatedTable(chosen, cols, absent, less) ==
    LET picked == SelectSeq(Indices(ScoreSamples),
                            LAMBDA k : k \in chosen /\ k \notin absent)
    IN  [raised |-> FALSE,
         rows |-> sort_values([j \in 1..Len(picked) |->
            LET s == ScoreSamples[picked[j]]
            IN  [c \in cols \cup {"star_player", "LINEUP_ARCHETYPE", "min_sum"} |->
                   CASE c = "star_player" -> s.star_player
                     [] c = "LINEUP_ARCHETYPE" -> Signature(s.signature)
                     [] c = "min_sum" ->
                          IF picked[j] \in less THEN s.min_sum - 10 ELSE s.min_sum
                     [] OTHER -> Num(MetricValue(s.seed, c))]])]

Scoring == pc = "lineups_scores"

InitScores ==
    /\ pc = "lineups_scores"
    /\ calls = 0
    /\ \E chosen \in {c \in SUBSET (1..Len(ScoreSamples)) : Cardinality(c) <= MaxLineups} :
       \E kind \in {"same", "efficiency_absent", "tendencies_absent",
                    "team_vs_opponent_absent", "tendencies_less",
                    "team_vs_opponent_less"} :
       \E one \in {{}} \cup {{k} : k \in chosen} :
          /\ (kind = "same") = (one = {})
          /\ df_efficiency =
                AggregatedTable(chosen, Range(EFF_COLS),
                                IF kind = "efficiency_absent" THEN one ELSE {}, {})
          /\ df_tendencies =
                AggregatedTable(chosen, Range(STYLE_COLS),
                                IF kind = "tendencies_absent" THEN one ELSE {},
                                IF kind = "tendencies_less" THEN one ELSE {})
          /\ df_team_vs_opponent =
                AggregatedTable(chosen, TEAM_COLS,
                                IF kind = "team_vs_opponent_absent" THEN one ELSE {},
                                IF kind = "team_vs_opponent_less" THEN one ELSE {})
    /\ df_scores = NoTable
    /\ df_archetype_lineups = <<>>
    /\ IdleRaw /\ IdleLineup /\ IdleLoader
    /\ IdlePoint /\ IdleZone /\ IdleShots /\ IdlePolygon /\ IdleArc

\* load_lineups.py line 30.
LineupsScores ==
    /\ Scoring /\ calls = 0
    /\ calls' = 1
    /\ df_scores' = lineups_scores(df_efficiency.rows, df_tendencies.rows,
                                   df_team_vs_opponent.rows)
    /\ UNCHANGED <<pc, geometry_vars, lineup_vars, raw_vars, loader_vars, df_archetype_lineups,
                   df_efficiency, df_tendencies, df_team_vs_opponent>>

NextScores == LineupsScores

SpecScores == InitScores /\ [][NextScores]_vars

Scored == Scoring /\ calls = 1

\* The merged frame before the floor, and the key of a row.
MergedInput ==
    merge_tables(df_efficiency.rows, df_tendencies.rows, df_team_vs_opponent.rows)
KeyOf(r) == <<r.star_player, r.LINEUP_ARCHETYPE>>
QualifyingKeys ==
    {KeyOf(MergedInput[i]) : i \in {j \in 1..Len(MergedInput) :
        /\ ~IsNaN(MergedInput[j].min_sum)
        /\ MergedInput[j].min_sum[1] >= 55}}
ScoredKeys == {KeyOf(df_scores.rows[i]) : i \in 1..Len(df_scores.rows)}
OnlyQualifying(table) == SelectSeq(table.rows, LAMBDA r : KeyOf(r) \in QualifyingKeys)

\* C17: the scored output holds a (star, lineup) row iff its min_sum is at
\* least 55 (40 is absent, 55 and 60 are present), once each, and the rows
\* left out take no part in the z-scores or in the star's maximum: the output
\* is the one of the tables without them.
C17_MinutesFloor ==
    Scored =>
        /\ ScoredKeys = QualifyingKeys
        /\ Len(df_scores.rows) = Cardinality(QualifyingKeys)
        /\ df_scores = lineups_scores(OnlyQualifying(df_efficiency),
                                      OnlyQualifying(df_tendencies),
                                      OnlyQualifying(df_team_vs_opponent))

\* One star with lineups of min_sum 40, 55 and 60: the first is left out and
\* the other two are scored.
C17_Witness ==
    /\ Scored
    /\ \E i \in 1..Len(MergedInput) :
          /\ MergedInput[i].min_sum = Num(40)
          /\ KeyOf(MergedInput[i]) \notin ScoredKeys
          /\ \E j, k \in 1..Len(df_scores.rows) :
                /\ df_scores.rows[j].star_player = MergedInput[i].star_player
                /\ df_scores.rows[k].star_player = MergedInput[i].star_player
                /\ df_scores.rows[j].min_sum = Num(55)
                /\ df_scores.rows[k].min_sum = Num(60)

\* The scored rows of one star, and the stars scored.
RowsOf(star) == SelectSeq(df_scores.rows, LAMBDA r : r.star_player = star)
ScoredStars == {df_scores.rows[i].star_player : i \in 1..Len(df_scores.rows)}
\* The tables with the rows of one star only.
OnlyStar(table, star) == SelectSeq(table.rows, LAMBDA r : r.star_player = star)

\* Mean and standard deviation of a z-score column over the rows `rows` that
\* share the denominator `den`: the sum of the numerators, and the standard
\* deviation in thousandths.
ZSum(rows, n) == SumInts([k \in 1..Len(rows) |-> rows[k][n][1]])
ZStdMilli(rows, n) ==
    LET sq == SumInts([k \in 1..Len(rows) |->
                  (rows[k][n][1] \div Micro) * (rows[k][n][1] \div Micro)])
    IN  (Isqrt((sq * SqrtScale * SqrtScale) \div Len(rows)) * (Micro \div SqrtScale))
          \div (rows[1][n][2] \div 1000)
HasSpread(rows, n) == \E k \in 1..Len(rows) : rows[k][n][1] # 0

\* C18: for a star with two or more scored lineups and a column that varies
\* over them, the z-scores of the column have mean 0 and standard deviation
\* within 1% of 1 over that star's rows, and a star's z-scores are those of
\* the tables holding that star's rows alone.
C18_PerStarNormalisation ==
    Scored =>
        \A star \in ScoredStars :
            LET rows == RowsOf(star)
                alone == lineups_scores(OnlyStar(df_efficiency, star),
                                        OnlyStar(df_tendencies, star),
                                        OnlyStar(df_team_vs_opponent, star)).rows
            IN  /\ \A n \in Z_COLS :
                      (/\ Len(rows) >= 2
                       /\ \A k \in 1..Len(rows) : ~IsNaN(rows[k][n])
                       /\ HasSpread(rows, n)) =>
                          /\ \A k \in 1..Len(rows) : rows[k][n][2] = rows[1][n][2]
                          /\ ZSum(rows, n) = 0
                          /\ ZStdMilli(rows, n) >= 990
                          /\ ZStdMilli(rows, n) <= 1000
                /\ Len(alone) = Len(rows)
                /\ \A k \in 1..Len(rows) : \A n \in Z_COLS : alone[k][n] = rows[k][n]

\* Two stars with two scored lineups each, the first with a column that
\* varies, the second with other values in that column.
C18_Witness ==
    /\ Scored
    /\ Cardinality(ScoredStars) = 2
    /\ \A star \in ScoredStars : Len(RowsOf(star)) >= 2
    /\ \E star \in ScoredStars :
          /\ HasSpread(RowsOf(star), "net_rating_Z")
          /\ ZStdMilli(RowsOf(star), "net_rating_Z") >= 990

\* The cells a z-score column of the scored rows was computed from.
SourceCells(rows, n) == ZCells(rows, n)
IsZero(c) == c[1] = 0 /\ c[2] # 0

\* C19: a star with one scored lineup, or with the same value of a metric on
\* all its scored lineups, gets no error and the finite z-score 0 for that
\* metric on each of its rows; the four scores of a star with one lineup are 0.
C19_ZeroSpreadIsZero ==
    Scored =>
        /\ ~df_scores.raised
        /\ \A star \in ScoredStars :
              LET rows == RowsOf(star)
              IN  /\ \A n \in Z_COLS :
                        LET cells == SourceCells(rows, n)
                        IN  (/\ ~IsNaN(cells[1])
                             /\ \A k \in 1..Len(rows) : cells[k] = cells[1]) =>
                                \A k \in 1..Len(rows) : IsZero(rows[k][n])
                  /\ (/\ Len(rows) = 1
                      /\ \A n \in Z_COLS : ~IsNaN(SourceCells(rows, n)[1])) =>
                        /\ IsZero(rows[1].EFF_SCORE)
                        /\ IsZero(rows[1].STYLE_SCORE)
                        /\ IsZero(rows[1].DEF_SCORE)
                        /\ IsZero(rows[1].QUALITY_SCORE)

\* A star with one scored lineup next to a star with two scored lineups that
\* have the same value in every column: all z-scores and scores are 0.
C19_Witness ==
    /\ Scored
    /\ \E a, b \in ScoredStars :
          /\ Len(RowsOf(a)) = 1
          /\ IsZero(RowsOf(a)[1].QUALITY_SCORE)
          /\ Len(RowsOf(b)) = 2
          /\ RowsOf(b)[1].net_rating = RowsOf(b)[2].net_rating
          /\ IsZero(RowsOf(b)[1].net_rating_Z)
          /\ IsZero(RowsOf(b)[2].net_rating_Z)

\* C20: MIN_CONF of every scored row is in [0, 1]; it is 1 exactly on the rows
\* with the largest min_sum among the star's scored lineups; within a star it
\* does not decrease when min_sum increases.
C20_MinConfRange ==
    Scored =>
        \A i \in 1..Len(df_scores.rows) :
            LET r == df_scores.rows[i]
                largest == \A j \in 1..Len(df_scores.rows) :
                              df_scores.rows[j].star_player = r.star_player
                                => df_scores.rows[j].min_sum[1] <= r.min_sum[1]
            IN  /\ r.MIN_CONF[2] = One
                /\ r.MIN_CONF[1] >= 0 /\ r.MIN_CONF[1] <= One
                /\ (r.MIN_CONF[1] = One) = largest
                /\ \A j \in 1..Len(df_scores.rows) :
                      (/\ df_scores.rows[j].star_player = r.star_player
                       /\ df_scores.rows[j].min_sum[1] <= r.min_sum[1]) =>
                          df_scores.rows[j].MIN_CONF[1] <= r.MIN_CONF[1]

\* Two stars with different largest min_sum; the star with the smaller one
\* has a row of MIN_CONF 1 and a row below 1.
C20_Witness ==
    /\ Scored
    /\ \E i, j, k \in 1..Len(df_scores.rows) :
          /\ df_scores.rows[i].star_player = df_scores.rows[j].star_player
          /\ df_scores.rows[i].MIN_CONF[1] = One
          /\ df_scores.rows[j].MIN_CONF[1] < One
          /\ df_scores.rows[j].MIN_CONF[1] > 0
          /\ df_scores.rows[k].star_player # df_scores.rows[i].star_player
          /\ df_scores.rows[k].min_sum[1] > df_scores.rows[i].min_sum[1]


\* The rows of the merged frame that pass the floor.
QualifyingRows == SelectSeq(MergedInput, Qualifies)

MaxScored == 17
\* Line 34: head(15).
TOP_N == 15

\* Lines 31-35 and 40: the first n rows of every star, in the order of the
\* frame, reduced to the two key columns.
\* head_per_star_Tail is the variant that takes the last n rows of every star.
head_per_star_Tail(rows, n) ==
    LET keep == SelectSeq(Indices(rows), LAMBDA i :
                   Cardinality({j \in (i + 1)..Len(rows) :
                       rows[j].star_player = rows[i].star_player}) < n)
    IN  [k \in 1..Len(keep) |->
            [star_player |-> rows[keep[k]].star_player,
             LINEUP_ARCHETYPE |-> rows[keep[k]].LINEUP_ARCHETYPE]]
head_per_star(rows, n) ==
    LET keep == SelectSeq(Indices(rows), LAMBDA i :
                   Cardinality({j \in 1..(i - 1) :
                       rows[j].star_player = rows[i].star_player}) < n)
    IN  [k \in 1..Len(keep) |->
            [star_player |-> rows[keep[k]].star_player,
             LINEUP_ARCHETYPE |-> rows[keep[k]].LINEUP_ARCHETYPE]]

\* The scored lineups of a star: lineup k has its own signature and a score
\* of the family `seed`, with ties.
LabelList ==
    << L_Movement_Shooter, L_3andD, L_Wing_Shot_Creator, L_All_Around_Guard,
       L_Rim_Runner_Protector, L_Shot_Creator_Guard, L_Glue_Guy, L_Stretch_Big,
       L_All_Around_Big, L_Pure_Point_Guard, L_Post_Scorer >>
ScoredSignature(k) ==
    IF k <= Len(LabelList)
    THEN lineup_signature(<<LabelList[k], L_3andD, L_3andD, L_3andD>>)
    ELSE lineup_signature(<<LabelList[k - Len(LabelList)],
                            L_Glue_Guy, L_Glue_Guy, L_Glue_Guy>>)
ScoredLineup(star, k, seed) ==
    [star_player |-> star,
     LINEUP_ARCHETYPE |-> ScoredSignature(k),
     QUALITY_SCORE |-> <<(((seed * k * k + 3 * k) % 7) - 3) * 1000000, 100000000>>]
\* What lineups_scores returns for na lineups of one star and nb of the other:
\* the rows in the order of lines 108-111.
ScoredTable(na, nb, seed) ==
    [raised |-> FALSE,
     rows |-> sort_scores([k \in 1..na |-> ScoredLineup("Star B", k, seed)]
                          \o [k \in 1..nb |-> ScoredLineup("Star A", k, seed + 1)])]

Selecting == pc = "top15"

InitTop ==
    /\ pc = "top15"
    /\ calls = 0
    /\ \E na, nb \in 0..MaxScored : \E seed \in 1..3 :
          df_scores = ScoredTable(na, nb, seed)
    /\ top15 = <<>> /\ columns = <<>> /\ outcome = <<>>
    /\ df_archetype_lineups = <<>>
    /\ df_efficiency = NoTable /\ df_tendencies = NoTable
    /\ df_team_vs_opponent = NoTable
    /\ IdleRaw /\ IdleLineup
    /\ IdlePoint /\ IdleZone /\ IdleShots /\ IdlePolygon /\ IdleArc

\* load_lineups.py lines 31-35 and 40.
SelectTop15 ==
    /\ Selecting /\ calls = 0
    /\ calls' = 1
    /\ top15' = head_per_star(df_scores.rows, TOP_N)
    /\ UNCHANGED <<pc, geometry_vars, lineup_vars, raw_vars, built_vars,
                   columns, outcome>>

NextTop == SelectTop15

SpecTop == InitTop /\ [][NextTop]_vars

Selected == Selecting /\ calls = 1

\* The scored rows of a star, and those of them top15 keeps.
ScoredOf(star) == SelectSeq(df_scores.rows, LAMBDA r : r.star_player = star)
IsKept(r) == \E k \in 1..Len(top15) : top15[k] = [star_player |-> r.star_player,
                                       LINEUP_ARCHETYPE |-> r.LINEUP_ARCHETYPE]
KeptOf(star) == SelectSeq(ScoredOf(star), IsKept)
LeftOutOf(star) == SelectSeq(ScoredOf(star), LAMBDA r : ~IsKept(r))

\* C22: the selection keeps at most 15 rows of a star, all of them when the
\* star has fewer than 15, and no row left out has a higher QUALITY_SCORE
\* than a row kept for the same star.
C22_TopFifteenPerStar ==
    Selected =>
        /\ \A k \in 1..Len(top15) : \E i \in 1..Len(df_scores.rows) :
              KeyOf(df_scores.rows[i]) = KeyOf(top15[k])
        /\ \A star \in {"Star A", "Star B"} :
              /\ Len(KeptOf(star)) <= 15
              /\ Len(SelectSeq(top15, LAMBDA r : r.star_player = star))
                    = Len(KeptOf(star))
              /\ Len(ScoredOf(star)) < 15 => Len(LeftOutOf(star)) = 0
              /\ Len(KeptOf(star)) = Min(15, Len(ScoredOf(star)))
              /\ \A i \in 1..Len(LeftOutOf(star)) : \A k \in 1..Len(KeptOf(star)) :
                    LeftOutOf(star)[i].QUALITY_SCORE[1] <= KeptOf(star)[k].QUALITY_SCORE[1]

\* One star has 17 scored lineups, two of them left out, one of which ties
\* with a kept row or is lower; the other star has 9 and keeps them all.
C22_Witness ==
    /\ Selected
    /\ Len(ScoredOf("Star A")) = 17
    /\ Len(LeftOutOf("Star A")) = 2
    /\ Len(KeptOf("Star A")) = 15
    /\ LeftOutOf("Star A")[1].QUALITY_SCORE[1] < KeptOf("Star A")[1].QUALITY_SCORE[1]
    /\ Len(ScoredOf("Star B")) = 9
    /\ Len(KeptOf("Star B")) = 9


\* The keys of an aggregated table.
KeysOf(table) == {KeyOf(table.rows[i]) : i \in 1..Len(table.rows)}
MergedKeys == {KeyOf(MergedInput[i]) : i \in 1..Len(MergedInput)}

\* C23: the frame lineups_scores filters and scores is the outer join of the
\* three tables: every key of the efficiency, the tendencies or the
\* team-vs-opponent table is a key of the merged frame.
\* and such a key is scored when its min_sum passes the floor.
C23_OuterJoin ==
    Scored =>
        /\ MergedKeys = KeysOf(df_efficiency) \cup KeysOf(df_tendencies)
                            \cup KeysOf(df_team_vs_opponent)
        /\ \A i \in 1..Len(df_team_vs_opponent.rows) :
              df_team_vs_opponent.rows[i].min_sum >= 55
                => KeyOf(df_team_vs_opponent.rows[i]) \in ScoredKeys

(***************************************************************************)
(* SPECIFICATION SpecColumns: the core functions called on tables that     *)
(* lack columns.  A table is the set of its column names; a name is a pair *)
(* of the name and the suffix a merge gave it.                             *)
(***************************************************************************)

\* Up to MaxDropped columns are missing from the tables of a call.
MaxDropped == 2

Col(c) == <<c, "">>
Cols(names) == {Col(c) : c \in names}

\* DataFrame.merge(right, on = on): the columns of the result; a column of
\* both sides that is no key gets the suffixes _x and _y.
merge_columns(left, right, on) ==
    LET both == (left \cap right) \ Cols(on)
    IN  ((left \cup right) \ both)
        \cup {<<c[1], "_x">> : c \in both} \cup {<<c[1], "_y">> : c \in both}

\* A statement that reads the columns `needs` of a frame with the columns
\* `has`; `work` tells that the statement computes on the data.
Stmt(line, needs, has, work) ==
    [line |-> line, needs |-> Cols(needs), has |-> has, work |-> work]
\* The statements in the order they run: the first one that reads a column
\* its frame does not have raises pandas' KeyError for that column; the
\* statements before it have run.
run_statements(stmts) ==
    LET bad == {i \in 1..Len(stmts) : ~(stmts[i].needs \subseteq stmts[i].has)}
    IN  IF bad = {} THEN [raised |-> FALSE, error |-> None, names |-> {},
                          line |-> 0, ran |-> {stmts[i].line : i \in 1..Len(stmts)}]
        ELSE LET first == CHOOSE i \in bad : \A j \in bad : i <= j
             IN  [raised |-> TRUE, error |-> "KeyError",
                  names |-> stmts[first].needs \ stmts[first].has,
                  line |-> stmts[first].line,
                  ran |-> {stmts[i].line : i \in {j \in 1..(first - 1) : stmts[j].work}}]

\* The columns the functions read.
LINEUP_KEYS == {"SEASON", "GROUP_ID"}
SCORE_KEYS == {"star_player", "LINEUP_ARCHETYPE"}
EFFICIENCY_RAW ==
    {"SEASON", "GROUP_ID", "GROUP_NAME", "MIN", "OFF_RATING", "DEF_RATING", "NET_RATING"}
ARCHETYPE_LINEUP_COLUMNS ==
    {"ALL_STAR_ID", "ALL_STAR_NAME", "GROUP_ID", "GROUP_NAME", "LINEUP_ARCHETYPE", "SEASON"}
PLAYER_COLUMNS == {"PLAYER_ID", "SEASON", "FINAL_ARCHETYPE", "PLAYER"}
SHOT_COLUMNS == {"LOC_X", "LOC_Y"}
PLAYER_ARCHETYPE_COLUMNS ==
    {"player1_archetype", "player2_archetype", "player3_archetype", "player4_archetype"}
EFFICIENCY_COLUMNS ==
    SCORE_KEYS \cup PLAYER_ARCHETYPE_COLUMNS \cup Range(EFF_COLS) \cup {"min_sum"}
TENDENCIES_COLUMNS ==
    SCORE_KEYS \cup PLAYER_ARCHETYPE_COLUMNS \cup Range(STYLE_COLS) \cup {"min_sum"}
TEAM_VS_OPPONENT_COLUMNS ==
    SCORE_KEYS \cup PLAYER_ARCHETYPE_COLUMNS \cup TEAM_COLS
        \cup {"fta", "opp_fta", "min_sum"}

\* build_archetype_lineups.py lines 407-429, on tables with rows.
build_efficiency_df_statements(c) ==
    LET picked == c.df_lineups \cap Cols(EFFICIENCY_RAW)
        merged == merge_columns(c.df_archetype_lineups, picked, LINEUP_KEYS)
    IN  << Stmt(409, EFFICIENCY_RAW, c.df_lineups, FALSE),
           Stmt(408, LINEUP_KEYS, c.df_archetype_lineups, TRUE),
           Stmt(415, {"MIN", "OFF_RATING", "DEF_RATING", "NET_RATING"}, merged, TRUE),
           Stmt(421, {"ALL_STAR_ID", "LINEUP_ARCHETYPE"}, merged, TRUE),
           Stmt(422, {"ALL_STAR_NAME"}, merged, TRUE) >>

\* build_archetype_lineups.py lines 311-322, on a table with a shot in the
\* court.
assign_zones_to_shots_statements(c) ==
    << Stmt(315, {"LOC_Y"}, c.df, TRUE),
       Stmt(322, {"LOC_X", "LOC_Y"}, c.df, TRUE) >>

\* build_archetype_lineups.py lines 375-398 and 334-335, on tables with rows.
build_archetype_lineups_statements(c) ==
    << Stmt(378, {"PLAYER_ID", "SEASON", "FINAL_ARCHETYPE"}, c.df_archetypes, TRUE),
       Stmt(383, {"PLAYER_ID", "PLAYER"}, c.df_archetypes, TRUE),
       Stmt(388, {"MIN"}, c.df_lineups, TRUE),
       Stmt(334, LINEUP_KEYS, c.df_lineups, TRUE) >>

\* lineup_score.py lines 26-61, on tables with rows.
lineups_scores_statements(c) ==
    LET first  == merge_columns(c.df_efficiency, c.df_tendencies, SCORE_KEYS)
        merged == merge_columns(first, c.df_team_vs_opponent, SCORE_KEYS)
    IN  << Stmt(28, SCORE_KEYS, c.df_efficiency, FALSE),
           Stmt(28, SCORE_KEYS, c.df_tendencies, TRUE),
           Stmt(29, SCORE_KEYS, c.df_team_vs_opponent, TRUE),
           Stmt(32, {"min_sum"}, merged, TRUE) >>
        \o [k \in 1..Len(EFF_COLS \o STYLE_COLS) |->
               Stmt(54, {(EFF_COLS \o STYLE_COLS)[k]}, merged, TRUE)]
        \o [k \in 1..Len(DEF_COLS) |->
               Stmt(58, {DEF_COLS[k][1], DEF_COLS[k][2]}, merged, TRUE)]

\* The tables of each function with all their columns.
FullTables(f) ==
    CASE f = "build_efficiency_df" ->
            [df_archetype_lineups |-> Cols(ARCHETYPE_LINEUP_COLUMNS),
             df_lineups |-> Cols(EFFICIENCY_RAW)]
      [] f = "assign_zones_to_shots" -> [df |-> Cols(SHOT_COLUMNS)]
      [] f = "build_archetype_lineups" ->
            [df_archetypes |-> Cols(PLAYER_COLUMNS),
             df_lineups |-> Cols(LINEUP_KEYS \cup {"GROUP_NAME", "MIN"})]
      [] f = "lineups_scores" ->
            [df_efficiency |-> Cols(EFFICIENCY_COLUMNS),
             df_tendencies |-> Cols(TENDENCIES_COLUMNS),
             df_team_vs_opponent |-> Cols(TEAM_VS_OPPONENT_COLUMNS)]
StatementsOf(f, c) ==
    CASE f = "build_efficiency_df" -> build_efficiency_df_statements(c)
      [] f = "assign_zones_to_shots" -> assign_zones_to_shots_statements(c)
      [] f = "build_archetype_lineups" -> build_archetype_lineups_statements(c)
      [] f = "lineups_scores" -> lineups_scores_statements(c)
\* The columns of table t that the function reads: without one of them the
\* call on otherwise full tables raises.
Required(f, t) ==
    {n \in FullTables(f)[t] :
        run_statements(StatementsOf(f, [FullTables(f) EXCEPT ![t] = @ \ {n}])).raised}
CoreFunctions ==
    {"build_efficiency_df", "assign_zones_to_shots", "build_archetype_lineups",
     "lineups_scores"}

\* The (table, column) pairs a call of f reads, and the sets of up to k of
\* them.
ReadPairs(f) ==
    UNION {{<<t, n>> : n \in Required(f, t)} : t \in DOMAIN FullTables(f)}
RECURSIVE UpTo(_, _)
UpTo(S, k) ==
    IF k = 0 THEN {{}}
    ELSE LET smaller == UpTo(S, k - 1)
         IN  smaller \cup {x \cup {e} : x \in smaller, e \in S}

InitColumns ==
    /\ pc \in CoreFunctions
    /\ calls = 0
    /\ \E dropped \in UpTo(ReadPairs(pc), MaxDropped) :
          columns = [t \in DOMAIN FullTables(pc) |->
                        FullTables(pc)[t] \ {p[2] : p \in {q \in dropped : q[1] = t}}]
    /\ outcome = <<>>
    /\ top15 = <<>>
    /\ IdleRaw /\ IdleBuilt /\ IdleLineup
    /\ IdlePoint /\ IdleZone /\ IdleShots /\ IdlePolygon /\ IdleArc

CallOf(f) ==
    /\ pc = f /\ calls = 0
    /\ calls' = 1
    /\ outcome' = run_statements(StatementsOf(f, columns))
    /\ UNCHANGED <<pc, geometry_vars, lineup_vars, raw_vars, built_vars,
                   top15, columns>>
CallBuildEfficiencyDf == CallOf("build_efficiency_df")
CallAssignZonesToShots == CallOf("assign_zones_to_shots")
CallBuildArchetypeLineups == CallOf("build_archetype_lineups")
CallLineupsScores == CallOf("lineups_scores")

NextColumns ==
    \/ CallBuildEfficiencyDf
    \/ CallAssignZonesToShots
    \/ CallBuildArchetypeLineups
    \/ CallLineupsScores

SpecColumns == InitColumns /\ [][NextColumns]_vars

Called == pc \in CoreFunctions /\ calls = 1
\* The columns the call reads and its tables lack.
MissingColumns ==
    UNION {Required(pc, t) \ columns[t] : t \in DOMAIN columns}

\* C24: a core function given a table that lacks a column it reads raises,
\* before any statement has computed on the data, an error that is no bare
\* KeyError and names the missing columns.
C24_EagerColumnValidation ==
    (Called /\ MissingColumns # {}) =>
        /\ outcome.raised
        /\ outcome.ran = {}
        /\ outcome.error # "KeyError"
        /\ MissingColumns \subseteq outcome.names


(***************************************************************************)
(* FURTHER PROPERTIES OF THE SHOT ZONE CLASSIFIER (Spec)                   *)
(***************************************************************************)

CenterMidrange == CHOOSE z \in Range(zones) : z.name = "Center Midrange"
\* The polar angle of (x, y) about the hoop lies between those of the two
\* arc corners of z.
InSectorOf(z, x, y) ==
    LET a  == z.corners[z.arc_between[1] + 1]
        b  == z.corners[z.arc_between[2] + 1]
        lo == IF Cross(a, b) > 0 THEN a ELSE b
        hi == IF Cross(a, b) > 0 THEN b ELSE a
    IN  /\ <<x, y>> # <<0, 0>>
        /\ Cross(lo, <<x, y>>) >= 0 /\ Cross(<<x, y>>, hi) >= 0
        /\ y > 0

\* C25: a point classified 'Center Midrange' lies in the Center Midrange
\* polygon or has its polar angle about the hoop between those of the arc
\* corners (96, 216) and (-96, 216); the wing points (-230, 100) and
\* (200, 130) are not classified 'Center Midrange'.
C25_CenterMidrangeSector ==
    (Classified /\ zone = "Center Midrange") =>
        \/ point_in_polygon(loc_x, loc_y, CenterMidrange.corners)
        \/ InSectorOf(CenterMidrange, loc_x, loc_y)

InCourt == loc_x >= U(-250) /\ loc_x <= U(250) /\ loc_y > -95 /\ loc_y <= U(340)
StrictlyInCourt == InCourt /\ loc_x > U(-250) /\ loc_x < U(250)

\* C26: every point with -250 < loc_x < 250 and -47.5 < loc_y <= 340 gets a
\* zone name, the points on an edge shared by two zones included.
C26_Coverage ==
    (Classified /\ StrictlyInCourt) => zone \in ZoneNames

\* A point on the corner shared by four zones, (160, 92.5), has a zone.
C26_Witness ==
    /\ Classified /\ StrictlyInCourt
    /\ loc_x = U(160) /\ loc_y = 185
    /\ zone \in ZoneNames

\* The left/right counterpart of a zone name.
MirrorName(n) ==
    CASE n = "Left Corner 3" -> "Right Corner 3"
      [] n = "Right Corner 3" -> "Left Corner 3"
      [] n = "Left Midrange Close" -> "Right Midrange Close"
      [] n = "Right Midrange Close" -> "Left Midrange Close"
      [] n = "Left Midrange Far" -> "Right Midrange Far"
      [] n = "Right Midrange Far" -> "Left Midrange Far"
      [] n = "Above the Break Left 3" -> "Above the Break Right 3"
      [] n = "Above the Break Right 3" -> "Above the Break Left 3"
      [] n = "Left Center Midrange" -> "Right Center Midrange"
      [] n = "Right Center Midrange" -> "Left Center Midrange"
      [] OTHER -> n

\* C27: for every point in bounds, edges and sidelines included, the zone of
\* (-x, y) is the left/right counterpart of the zone of (x, y).
C27_MirrorSymmetry ==
    (Classified /\ InCourt) =>
        get_shot_zone(-loc_x, loc_y) = MirrorName(zone)


(***************************************************************************)
(* THE NAME OF THE STAR IN THE EMITTED ROWS (SpecLineup).                  *)
(***************************************************************************)

\* C30: every row process_lineup_row emits has a non-null ALL_STAR_NAME: the
\* all-star of each emitted row is a player of the name lookup.
C30_StarNameResolved ==
    Resolved =>
        \A i \in 1..Len(output_rows) :
            /\ output_rows[i].ALL_STAR_NAME # None
            /\ output_rows[i].ALL_STAR_ID \in DOMAIN player_name_map

(***************************************************************************)
(* THE SOURCE OF min_sum IN lineups_scores (SpecScores).                   *)
(***************************************************************************)

\* The rows of `table` with the min_sum the efficiency table has for the same
\* key, where it has the key: an input that differs from `table` in min_sum
\* values only.
WithEfficiencyMinSum(table) ==
    [k \in 1..Len(table.rows) |->
        LET r    == table.rows[k]
            hits == SelectSeq(df_efficiency.rows, LAMBDA e : KeyOf(e) = KeyOf(r))
        IN  IF Len(hits) = 0 THEN r
            ELSE [r EXCEPT !.min_sum = hits[1].min_sum]]
\* The second run: the same efficiency table, the other two tables with other
\* min_sum values.
SecondRun ==
    lineups_scores(df_efficiency.rows, WithEfficiencyMinSum(df_tendencies),
                   WithEfficiencyMinSum(df_team_vs_opponent))
\* MIN_CONF by key in a scored table.
MinConfOf(table) ==
    {<<KeyOf(table.rows[i]), table.rows[i].MIN_CONF>> : i \in 1..Len(table.rows)}

\* C29: the run and a second run whose tendencies and team-vs-opponent
\* tables differ from the first's in min_sum values only keep the same keys
\* and compute the same MIN_CONF for each, and the keys kept are those of the
\* efficiency rows whose own min_sum is at least 55.
C29_MinSumOfEfficiency ==
    Scored =>
        /\ KeysOf(SecondRun) = ScoredKeys
        /\ MinConfOf(SecondRun) = MinConfOf(df_scores)
        /\ ScoredKeys =
              {KeyOf(df_efficiency.rows[i]) :
                  i \in {j \in 1..Len(df_efficiency.rows) :
                            df_efficiency.rows[j].min_sum >= MIN_THRESH}}

(***************************************************************************)
(* SPECIFICATION SpecSignature: process_lineup_row on one lineup of an     *)
(* all-star and four teammates, for every choice of the teammates' labels  *)
(* among the eleven of ARCHETYPE_SPECS.                                    *)
(***************************************************************************)

\* Four labels as their positions in LabelList, in non-decreasing order: a
\* multiset of four labels.
LabelMultisets ==
    {m \in [1..4 -> 1..Len(LabelList)] : \A i \in 1..3 : m[i] <= m[i + 1]}
LabelsOf(m) == [i \in 1..4 |-> LabelList[m[i]]]
\* The teammates of the lineup and its row.
Teammates == <<101, 102, 103, 104>>
SignatureRow ==
    [SEASON |-> "2023-24", GROUP_ID |-> GroupId(<<2544>> \o Teammates),
     GROUP_NAME |-> "lineup"]

Signing == pc = "lineup_signature"

InitSignature ==
    /\ pc = "lineup_signature"
    /\ calls = 0
    /\ \E m \in LabelMultisets : \E turn \in 0..3 :
          archetype_map =
             [k \in {<<q, "2023-24">> : q \in Range(Teammates) \cup {2544}} |->
                 IF k[1] = 2544 THEN L_Wing_Shot_Creator
                 ELSE LabelsOf(m)[((k[1] - 101 + turn) % 4) + 1]]
    /\ player_name_map = NameMapOf(archetype_map)
    /\ row = SignatureRow
    /\ output_rows = <<>>
    /\ IdlePoint /\ IdleZone /\ IdleShots /\ IdlePolygon /\ IdleArc
    /\ IdlePipeline

SignLineup ==
    /\ Signing /\ calls = 0
    /\ calls' = 1
    /\ output_rows' = process_lineup_row(row, ALL_STAR_IDS, archetype_map,
                                         player_name_map)
    /\ UNCHANGED <<pc, geometry_vars, archetype_map, player_name_map, row,
                   pipeline_vars>>

NextSignature == SignLineup

SpecSignature == InitSignature /\ [][NextSignature]_vars

Signed == Signing /\ calls = 1
\* How often the label at position i of LabelList is among the teammates'
\* labels, and in the multiset m.
TeammateCount(i) ==
    Cardinality({q \in Range(Teammates) :
                    archetype_map[<<q, "2023-24">>] = LabelList[i]})
TeammateCounts == [i \in 1..Len(LabelList) |-> TeammateCount(i)]
CountsOf(m) ==
    [i \in 1..Len(LabelList) |-> Cardinality({k \in 1..4 : m[k] = i})]
\* The LINEUP_ARCHETYPE a pair whose teammates have the labels of m receives,
\* for every multiset m of four labels of ARCHETYPE_SPECS, beside m's counts.
SignaturePairs ==
    {<<lineup_signature(LabelsOf(m)), CountsOf(m)>> : m \in LabelMultisets}

\* C28: the pair of the lineup and the pair whose teammates have the labels
\* of any multiset m receive the same LINEUP_ARCHETYPE exactly when m is the
\* multiset of the lineup's teammates' labels; no two multisets of labels of
\* ARCHETYPE_SPECS give the same string.
C28_SignatureInjective ==
    Signed =>
        /\ Len(output_rows) = 1
        /\ LET given == output_rows[1].LINEUP_ARCHETYPE
           IN  {p \in SignaturePairs : p[1] = given} = {<<given, TeammateCounts>>}

\* The teammates hold both labels with a '-' in them, one of them twice.
C28_Witness ==
    /\ Signed
    /\ Len(output_rows) = 1
    /\ TeammateCount(4) = 2 /\ LabelList[4] = L_All_Around_Guard
    /\ TeammateCount(9) = 1 /\ LabelList[9] = L_All_Around_Big
    /\ Len(Split(output_rows[1].LINEUP_ARCHETYPE, Hyphen)) = 7

====
